---- MODULE Spec2Model ----
(***************************************************************************)
(* A model of the build pipeline of picobundler: the dependency cache      *)
(* (src/cli/src/build/cache.rs) and the build orchestrator                 *)
(* (src/cli/src/build/mod.rs).                                             *)
(***************************************************************************)
EXTENDS Naturals, Sequences, FiniteSets, TLC

\* How many times the single caller calls DependencyCache::load in a row.
MaxCalls == 2
\* The longest target list and the longest package list of a build request.
MaxTargets == 2
MaxPackages == 2
\* The longest token list given to format_native_static_libs.
MaxTokens == 3
\* The most arg, arg_secret, cwd and env calls made on one Command.
MaxComponents == 3
MaxDepth == 2
MaxNotes == 2
MaxLines == 3
\* artifacts handed to the post-build stage
MaxArtifacts == 2
\* lines a subprocess writes, and lines a pipe holds before a write blocks
MaxWrites == 4
PipeCapacity == 2

VARIABLES
    fs,      \* the cache root: directory name -> [exists, entries]
    proc,    \* the callers of DependencyCache::load: id -> their position in load
    calls,   \* how many calls of load were started so far
    flaky,   \* whether file operations and fetch commands may fail by themselves
    host,    \* target_lexicon::HOST, the triple the program was compiled for
    req,     \* the BuildRequest given to build
    b,       \* build: its position, its locals and its result
    thr,     \* the two threads of load_dependencies, each with the external
             \* commands it has run so far
    trace,   \* what the thread that called build has run so far, in order:
             \* external commands with their outcome, and load_dependencies
    fmtlibs, \* a call of format_native_static_libs: its argument and result
    command, \* a Command: what was given to the builder, the subprocess it
             \* ran and what the run returned
    pipe,    \* read_double_pipe: the two reader threads, the channel and
             \* the calls of the output callback so far
    reporter, \* StatusReporter: its stacks, and for every thread the guards
             \* of the spans it holds
    error,   \* an Error value: the thread that constructed it and what
             \* Error::new, with_note and with_message made of it
    cargo,   \* a call of cargo_build: the subprocess and what it returned
    fncall,  \* a call of a function without side effects: its name, its
             \* arguments and its result
    post     \* the post-build stage of main: the artifacts and their tasks

cache_vars == <<fs, proc, calls, flaky>>
build_vars == <<host, req, b, thr, trace>>
more_vars == <<error, cargo, fncall, post>>
cli_vars == <<fmtlibs, command, pipe, reporter, error, cargo, fncall, post>>
vars == <<fs, proc, calls, flaky, host, req, b, thr, trace, fmtlibs, command,
          pipe, reporter, error, cargo, fncall, post>>

(***************************************************************************)
(* cache.rs: Dependency                                                    *)
(***************************************************************************)
\* env!("GIT_HASH"), set by build.rs from `git rev-parse HEAD`
GIT_HASH == "0123abcd"
\* the pinned commit of the open-source VST3 SDK
VST3_COMMIT == "8b59557d881bb0158ba08ff256b26f025f078314"

SelfCmake(commit_id) == [kind |-> "SelfCmake", commit_id |-> commit_id]
Vst3OSS(commit_id) == [kind |-> "Vst3OSS", commit_id |-> commit_id]
Vst3Proprietary == [kind |-> "Vst3Proprietary", commit_id |-> ""]

Dependency == {SelfCmake(GIT_HASH), Vst3OSS(VST3_COMMIT), Vst3Proprietary}

folder_name(item) ==
    CASE item.kind = "SelfCmake" -> "picobundler-cmake-" \o item.commit_id
      [] item.kind = "Vst3OSS" -> "vst3-sdk-" \o item.commit_id
      [] item.kind = "Vst3Proprietary" -> "vst3-sdk-proprietary"

\* self.root.join(item.folder_name()): paths are kept relative to the root
folder_path(item) == folder_name(item)

tmp_folder_Final(item) == folder_name(item)
\* self.root.join(format!("tmp-{}", item.folder_name()))
tmp_folder(item) == "tmp-" \o folder_name(item)

(***************************************************************************)
(* The cache root on disk.  A directory holds entries <<name, gen>>: the   *)
(* name of what a command wrote and the call of load that wrote it.        *)
(***************************************************************************)
Paths == {folder_path(d) : d \in Dependency} \cup {tmp_folder(d) : d \in Dependency}

NoDir == [exists |-> FALSE, entries |-> {}]
EmptyDir == [exists |-> TRUE, entries |-> {}]
Dir(entries) == [exists |-> TRUE, entries |-> entries]

NamesOf(dir) == {e[1] : e \in dir.entries}
GensOf(dir) == {e[2] : e \in dir.entries}

(***************************************************************************)
(* cache.rs: the commands of load_item.  Every command runs in (or writes  *)
(* into) the tmp folder; `needs` is what it must find there, `makes` what  *)
(* it leaves there and `removes` what it deletes.                          *)
(***************************************************************************)
Cmd(name, needs, makes, removes) ==
    [cmd |-> name, needs |-> needs, makes |-> makes, removes |-> removes]

git_shallow_clone ==
    << Cmd("git init", {}, {".git"}, {}),
       Cmd("git remote add origin", {".git"}, {"origin"}, {}),
       Cmd("git fetch origin --depth=1", {"origin"}, {"FETCH_HEAD"}, {}),
       Cmd("git reset --hard", {"FETCH_HEAD"}, {"worktree"}, {}) >>

git_shallow_update_submodule(submodule) ==
    << Cmd("git submodule update", {"worktree"}, {submodule}, {}) >>

load_item(item) ==
    CASE item.kind = "SelfCmake" ->
            git_shallow_clone
            \o git_shallow_update_submodule("clap")
            \o git_shallow_update_submodule("clap-wrapper")
      [] item.kind = "Vst3OSS" ->
            git_shallow_clone
            \o git_shallow_update_submodule("base")
            \o git_shallow_update_submodule("cmake")
            \o git_shallow_update_submodule("pluginterfaces")
            \o git_shallow_update_submodule("public.sdk")
      [] item.kind = "Vst3Proprietary" ->
            << Cmd("download_file", {}, {"vst3sdk.zip"}, {}),
               Cmd("unzip_archive", {"vst3sdk.zip"}, {"sdk"}, {}),
               Cmd("remove_file", {"vst3sdk.zip"}, {}, {"vst3sdk.zip"}) >>

\* what a command leaves of the entries it finds, run by call `gen`
RunCmd(c, entries, gen) ==
    {e \in entries : e[1] \notin (c.makes \cup c.removes)}
        \cup {<<m, gen>> : m \in c.makes}

RECURSIVE RunAll(_, _, _, _)
RunAll(cmds, k, entries, gen) ==
    IF k > Len(cmds) THEN entries
    ELSE RunAll(cmds, k + 1, RunCmd(cmds[k], entries, gen), gen)

\* the names a complete entry of the dependency holds
FullContent(item) == {e[1] : e \in RunAll(load_item(item), 1, {}, 0)}

\* populated: the directory holds all of the dependency's content
Populated(item, dir) == dir.exists /\ NamesOf(dir) = FullContent(item)

\* completely populated: all of the dependency's content, written by one call
Complete(item, dir) == Populated(item, dir) /\ Cardinality(GensOf(dir)) = 1

(***************************************************************************)
(* cache.rs: DependencyCache::load, one action per statement               *)
(***************************************************************************)
Running(p) == proc[p].pc \in
    {"folder_exists", "tmp_exists", "remove_dir_all", "create_dir_all",
     "load_item", "rename"}
Returned(p) == proc[p].pc \in {"ok", "err"}

Faults == IF flaky THEN BOOLEAN ELSE {FALSE}

Goto(p, pc) == proc' = [proc EXCEPT ![p].pc = pc]
Fail(p, fault) == proc' = [proc EXCEPT ![p].pc = "err", ![p].fault = fault]

\* the caller calls load(item); `pre` keeps the root as the call found it
Call(p) ==
    /\ ~Running(p)
    /\ \A q \in DOMAIN proc : ~Running(q)
    /\ calls < MaxCalls
    /\ \E item \in Dependency :
        proc' = [proc EXCEPT ![p] =
            [pc |-> "folder_exists", item |-> item, step |-> 1,
             gen |-> calls + 1, ret |-> "", fault |-> FALSE, pre |-> fs]]
    /\ calls' = calls + 1
    /\ UNCHANGED <<fs, flaky, build_vars, cli_vars>>

Load_FolderExists_NoHit(p) ==
    /\ proc[p].pc = "folder_exists"
    /\ Goto(p, "tmp_exists")
    /\ UNCHANGED <<fs, calls, flaky, build_vars, cli_vars>>
\* lines 50-53: if folder_path.exists() { return Ok(folder_path); }
Load_FolderExists(p) ==
    /\ proc[p].pc = "folder_exists"
    /\ IF fs[folder_path(proc[p].item)].exists
       THEN proc' = [proc EXCEPT ![p].pc = "ok",
                                 ![p].ret = folder_path(proc[p].item)]
       ELSE Goto(p, "tmp_exists")
    /\ UNCHANGED <<fs, calls, flaky, build_vars, cli_vars>>

\* lines 55-56: if tmp_folder.exists()
Load_TmpExists(p) ==
    /\ proc[p].pc = "tmp_exists"
    /\ IF fs[tmp_folder(proc[p].item)].exists
       THEN Goto(p, "remove_dir_all")
       ELSE Goto(p, "create_dir_all")
    /\ UNCHANGED <<fs, calls, flaky, build_vars, cli_vars>>

Load_RemoveDirAll_Keep(p) ==
    /\ proc[p].pc = "remove_dir_all"
    /\ Goto(p, "create_dir_all")
    /\ UNCHANGED <<fs, calls, flaky, build_vars, cli_vars>>
\* line 57: std::fs::remove_dir_all(&tmp_folder)?
Load_RemoveDirAll(p) ==
    /\ proc[p].pc = "remove_dir_all"
    /\ \E fault \in Faults :
        LET tmp == tmp_folder(proc[p].item) IN
        IF fault \/ ~fs[tmp].exists
        THEN Fail(p, fault) /\ UNCHANGED fs
        ELSE Goto(p, "create_dir_all") /\ fs' = [fs EXCEPT ![tmp] = NoDir]
    /\ UNCHANGED <<calls, flaky, build_vars, cli_vars>>

\* line 60: std::fs::create_dir_all(&tmp_folder)?
Load_CreateDirAll(p) ==
    /\ proc[p].pc = "create_dir_all"
    /\ \E fault \in Faults :
        LET tmp == tmp_folder(proc[p].item) IN
        IF fault
        THEN Fail(p, fault) /\ UNCHANGED fs
        ELSE /\ proc' = [proc EXCEPT ![p].pc = "load_item", ![p].step = 1]
             /\ fs' = [fs EXCEPT ![tmp] =
                        IF fs[tmp].exists THEN fs[tmp] ELSE EmptyDir]
    /\ UNCHANGED <<calls, flaky, build_vars, cli_vars>>

\* line 63: self.load_item(&tmp_folder, item)?, one command at a time
Load_LoadItem(p) ==
    /\ proc[p].pc = "load_item"
    /\ \E fault \in Faults, junk \in BOOLEAN :
        LET tmp == tmp_folder(proc[p].item)
            cmds == load_item(proc[p].item)
            c == cmds[proc[p].step]
        IN
        IF fault \/ ~fs[tmp].exists \/ ~(c.needs \subseteq NamesOf(fs[tmp]))
        THEN /\ Fail(p, fault)
             \* a failing command may leave part of its output behind
             /\ fs' = IF junk /\ fs[tmp].exists
                      THEN [fs EXCEPT ![tmp].entries =
                                @ \cup {<<"partial", proc[p].gen>>}]
                      ELSE fs
        ELSE /\ ~junk
             /\ fs' = [fs EXCEPT ![tmp].entries = RunCmd(c, @, proc[p].gen)]
             /\ proc' = [proc EXCEPT
                    ![p].pc = IF proc[p].step = Len(cmds)
                              THEN "rename" ELSE "load_item",
                    ![p].step = proc[p].step + 1]
    /\ UNCHANGED <<calls, flaky, build_vars, cli_vars>>

Load_Rename_Copy(p) ==
    /\ proc[p].pc = "rename"
    /\ LET tmp == tmp_folder(proc[p].item)
           final == folder_path(proc[p].item)
       IN /\ fs' = [fs EXCEPT ![final] = fs[tmp]]
          /\ proc' = [proc EXCEPT ![p].pc = "ok", ![p].ret = final]
    /\ UNCHANGED <<calls, flaky, build_vars, cli_vars>>
\* lines 66-68: std::fs::rename(&tmp_folder, &folder_path)?; Ok(folder_path)
\* rename fails when the source is missing or the target is a directory
\* that is not empty
Load_Rename(p) ==
    /\ proc[p].pc = "rename"
    /\ \E fault \in Faults :
        LET tmp == tmp_folder(proc[p].item)
            final == folder_path(proc[p].item)
        IN
        IF fault \/ ~fs[tmp].exists
                 \/ (fs[final].exists /\ fs[final].entries # {})
        THEN Fail(p, fault) /\ UNCHANGED fs
        ELSE /\ fs' = [fs EXCEPT ![final] = fs[tmp], ![tmp] = NoDir]
             /\ proc' = [proc EXCEPT ![p].pc = "ok", ![p].ret = final]
    /\ UNCHANGED <<calls, flaky, build_vars, cli_vars>>

\* the process is killed between two statements of load, or inside a
\* command of load_item, which may leave part of its output behind
Kill(p) ==
    /\ Running(p)
    /\ \E junk \in BOOLEAN :
        LET tmp == tmp_folder(proc[p].item) IN
        /\ junk => (proc[p].pc = "load_item" /\ fs[tmp].exists)
        /\ fs' = IF junk
                 THEN [fs EXCEPT ![tmp].entries =
                            @ \cup {<<"partial", proc[p].gen>>}]
                 ELSE fs
    /\ Goto(p, "killed")
    /\ UNCHANGED <<calls, flaky, build_vars, cli_vars>>

load(p) ==
    \/ Load_FolderExists(p)
    \/ Load_TmpExists(p)
    \/ Load_RemoveDirAll(p)
    \/ Load_CreateDirAll(p)
    \/ Load_LoadItem(p)
    \/ Load_Rename(p)

IdleProc ==
    [pc |-> "idle", item |-> Vst3Proprietary, step |-> 1, gen |-> 0,
     ret |-> "", fault |-> FALSE, pre |-> [n \in Paths |-> NoDir]]

(***************************************************************************)
(* mod.rs: triples, BuildTarget, BuildRequest                              *)
(***************************************************************************)
None == [some |-> FALSE, val |-> ""]
Some(v) == [some |-> TRUE, val |-> v]
Ok(v) == [ok |-> TRUE, val |-> v]
Err(e) == [ok |-> FALSE, val |-> e]

\* target_lexicon::Triple: architecture, vendor, operating system, environment
MkTriple(arch, vendor, os, env) ==
    [architecture |-> arch, vendor |-> vendor,
     operating_system |-> os, environment |-> env]

X86_64_LINUX_GNU == MkTriple("x86_64", "unknown", "linux", "gnu")
X86_64_LINUX_MUSL == MkTriple("x86_64", "unknown", "linux", "musl")
AARCH64_APPLE_DARWIN == MkTriple("aarch64", "apple", "darwin", "unknown")
X86_64_APPLE_DARWIN == MkTriple("x86_64", "apple", "darwin", "unknown")
X86_64_FREEBSD == MkTriple("x86_64", "unknown", "freebsd", "unknown")

\* Triple's Display: the environment is left out when it is unknown
TripleToString(t) ==
    t.architecture \o "-" \o t.vendor \o "-" \o t.operating_system
        \o (IF t.environment = "unknown" THEN "" ELSE "-" \o t.environment)

\* matches!(os, OperatingSystem::Darwin(_) | OperatingSystem::MacOSX(_))
IsDarwinOrMacOSX(os) == os \in {"darwin", "macosx"}

Triple(t) == [kind |-> "Triple", triple |-> t, glibc |-> ""]
TripleGlibc(t, glibc) == [kind |-> "TripleGlibc", triple |-> t, glibc |-> glibc]
AppleUniversal ==
    [kind |-> "AppleUniversal", triple |-> AARCH64_APPLE_DARWIN, glibc |-> ""]

\* BuildTarget::is_supported
is_supported(target, triple) ==
    CASE target.kind = "Triple" ->
            /\ target.triple.architecture = triple.architecture
            /\ target.triple.operating_system = triple.operating_system
      [] target.kind = "TripleGlibc" ->
            /\ target.triple.architecture = triple.architecture
            /\ target.triple.operating_system = triple.operating_system
      [] target.kind = "AppleUniversal" ->
            IsDarwinOrMacOSX(triple.operating_system)

\* BuildTarget's Display
TargetToString_NoGlibc(target) ==
    IF target.kind = "AppleUniversal" THEN "universal-apple-darwin"
    ELSE TripleToString(target.triple)
TargetToString(target) ==
    CASE target.kind = "Triple" -> TripleToString(target.triple)
      [] target.kind = "TripleGlibc" ->
            TripleToString(target.triple) \o "." \o target.glibc
      [] target.kind = "AppleUniversal" -> "universal-apple-darwin"

\* zig.rs: zig_triple
zig_triple_NoLibc(triple, glibc) ==
    LET os == CASE triple.operating_system = "linux" -> "linux"
                [] IsDarwinOrMacOSX(triple.operating_system) -> "macos"
                [] triple.operating_system = "windows" -> "windows"
                [] OTHER -> ""
    IN  IF os = "" THEN Err("unsupported operating system")
        ELSE IF triple.environment \notin {"gnu", "musl", "msvc", "unknown"}
        THEN Err("unsupported environment")
        ELSE Ok(triple.architecture \o "-" \o os
                \o (IF triple.environment = "unknown" THEN ""
                    ELSE "-" \o triple.environment))
zig_triple(triple, glibc) ==
    LET os == CASE triple.operating_system = "linux" -> "linux"
                [] IsDarwinOrMacOSX(triple.operating_system) -> "macos"
                [] triple.operating_system = "windows" -> "windows"
                [] OTHER -> ""
        env == CASE triple.environment = "gnu" -> "-gnu"
                 [] triple.environment = "musl" -> "-musl"
                 [] triple.environment = "msvc" -> "-msvc"
                 [] triple.environment = "unknown" -> ""
                 [] OTHER -> "?"
    IN  IF os = "" THEN Err("unsupported operating system")
        ELSE IF env = "?" THEN Err("unsupported environment")
        ELSE Ok(triple.architecture \o "-" \o os \o env
                    \o (IF glibc.some THEN "." \o glibc.val ELSE ""))

(***************************************************************************)
(* cargo.rs: cargo_build                                                   *)
(***************************************************************************)
RECURSIVE ReplaceDash(_)
ReplaceDash(s) ==
    IF Len(s) = 0 THEN ""
    ELSE (IF SubSeq(s, 1, 1) = "-" THEN "_" ELSE SubSeq(s, 1, 1))
            \o ReplaceDash(SubSeq(s, 2, Len(s)))

cargo_normalize_package_name(name) == ReplaceDash(name)

cargo_output_path_AnyWindows(target_dir, profile, triple, package_name, crate_type) ==
    LET pkg == cargo_normalize_package_name(package_name)
        os == triple.operating_system
        filename ==
            CASE os = "linux" /\ crate_type = "Cdylib" -> "lib" \o pkg \o ".so"
              [] IsDarwinOrMacOSX(os) /\ crate_type = "Cdylib" ->
                    "lib" \o pkg \o ".dylib"
              [] os = "windows" /\ crate_type = "Cdylib" -> pkg \o ".dll"
              [] os = "windows" /\ crate_type = "Staticlib" -> pkg \o ".lib"
              [] os \in {"linux", "darwin", "macosx"} -> "lib" \o pkg \o ".a"
              [] OTHER -> ""
        profile_dir ==
            CASE profile \in {"release", "bench"} -> "release"
              [] profile \in {"dev", "test"} -> "debug"
              [] OTHER -> profile
    IN  IF filename = "" THEN Err("unsupported target")
        ELSE Ok(target_dir \o "/" \o TripleToString(triple) \o "/"
                    \o profile_dir \o "/" \o filename)
cargo_output_path(target_dir, profile, triple, package_name, crate_type) ==
    LET pkg == cargo_normalize_package_name(package_name)
        os == triple.operating_system
        filename ==
            CASE os = "linux" /\ crate_type = "Cdylib" -> "lib" \o pkg \o ".so"
              [] os = "linux" /\ crate_type = "Staticlib" -> "lib" \o pkg \o ".a"
              [] IsDarwinOrMacOSX(os) /\ crate_type = "Cdylib" ->
                    "lib" \o pkg \o ".dylib"
              [] IsDarwinOrMacOSX(os) /\ crate_type = "Staticlib" ->
                    "lib" \o pkg \o ".a"
              [] os = "windows" /\ crate_type = "Cdylib" -> pkg \o ".dll"
              [] os = "windows" /\ triple.environment = "msvc"
                    /\ crate_type = "Staticlib" -> pkg \o ".lib"
              [] os = "windows" /\ triple.environment # "msvc"
                    /\ crate_type = "Staticlib" -> "lib" \o pkg \o ".a"
              [] OTHER -> ""
        profile_dir ==
            CASE profile \in {"release", "bench"} -> "release"
              [] profile \in {"dev", "test"} -> "debug"
              [] OTHER -> profile
    IN  IF filename = "" THEN Err("unsupported target")
        ELSE Ok(target_dir \o "/" \o TripleToString(triple) \o "/"
                    \o profile_dir \o "/" \o filename)

\* the artifacts of a compiler run that exited with status 0: one per
\* package in request order.  `libs` is the native_static_libs map, keyed by
\* the names the compiler reported; an entry is removed when it is taken.
RECURSIVE CargoArtifacts(_, _, _, _)
CargoArtifacts(build, k, libs, acc) ==
    IF k > Len(build.packages) THEN Ok(acc)
    ELSE LET package == build.packages[k]
             key == cargo_normalize_package_name(package)
             path == cargo_output_path(build.target_dir, build.profile,
                        build.target, package, build.crate_type)
         IN  IF ~path.ok THEN path
             ELSE CargoArtifacts(build, k + 1, libs \ {key},
                    Append(acc,
                        [package |-> package, path |-> path.val,
                         native_static_libs |->
                            IF key \in libs THEN Some("libs:" \o key)
                            ELSE None]))

\* cargo rustc --print=native-static-libs reports the libraries of every
\* selected package, under the package's normalized name
ReportedLibs(build) ==
    IF build.crate_type = "Staticlib"
    THEN {cargo_normalize_package_name(build.packages[k]) :
            k \in 1..Len(build.packages)}
    ELSE {}

\* cargo_build, given whether the compiler exited with status 0
cargo_build(build, exit_ok) ==
    IF ~exit_ok THEN Err("compilation error")
    ELSE CargoArtifacts(build, 1, ReportedLibs(build), <<>>)

CargoBuild(crate_type, packages, target) ==
    [crate_type |-> crate_type, target_dir |-> "target",
     packages |-> packages, profile |-> "release", target |-> target]

\* an external command that was run: which, on what, and whether it
\* exited with status 0; for the commands of build_libraries also the
\* position in request.targets of the target they were run for (ti) and
\* the input files given on the command line
EvFor(ti, op, crate_type, target, package, inputs, ok) ==
    [op |-> op, crate_type |-> crate_type, target |-> target,
     package |-> package, ok |-> ok, ti |-> ti, inputs |-> inputs]

Ev(op, crate_type, target, package, ok) ==
    EvFor(0, op, crate_type, target, package, <<>>, ok)

(***************************************************************************)
(* mod.rs: build, one action per external command                          *)
(***************************************************************************)
NoResult == [returned |-> FALSE, ok |-> FALSE, val |-> <<>>]

BuildIdle ==
    [pc |-> "idle", use_zig |-> FALSE, use_cmake |-> FALSE, crate_type |-> "",
     ti |-> 1, pi |-> 1, ai |-> 1, artifacts |-> <<>>,
     output_aarch64 |-> <<>>, output_x86_64 |-> <<>>,
     pico_cmake |-> "", vst3_sdk |-> None, deps |-> Ok(""),
     output |-> <<>>, zig_version |-> "", result |-> NoResult]

ThreadsIdle ==
    [t \in {"vst3", "pico"} |->
        [pc |-> "unspawned", result |-> Ok(None), log |-> <<>>]]

\* return Ok(v) / return Err(e), also by `?`
Return(r) ==
    b' = [b EXCEPT !.pc = "done",
                   !.result = [returned |-> TRUE, ok |-> r.ok, val |-> r.val]]

Run(ev) == trace' = Append(trace, ev)

\* lines 151-158
use_zig(request) ==
    \E i \in 1..Len(request.targets) :
        LET x == request.targets[i] IN
        CASE x.kind = "Triple" -> x.triple # host
          [] x.kind = "TripleGlibc" -> TRUE
          [] x.kind = "AppleUniversal" ->
                ~IsDarwinOrMacOSX(host.operating_system)

use_cmake_NoCross(request) ==
    request.vst3 # "None" \/ request.auv2
\* line 159
use_cmake(request) ==
    request.vst3 # "None" \/ request.auv2 \/ use_zig(request)

\* build_libraries is entered with Cdylib (line 171) or Staticlib (line 195)
EnterLibraries(crate_type) ==
    [b EXCEPT !.pc = IF Len(req.targets) = 0 THEN "libs_done" ELSE "target",
              !.crate_type = crate_type, !.ti = 1, !.artifacts = <<>>]

\* lines 147-167, up to the first external command
build_start ==
    /\ b.pc = "start"
    /\ IF req.vst3 = "None" /\ ~req.auv2 /\ ~req.clap
       THEN Return(Ok(<<>>))
       ELSE LET uz == use_zig(req)
                uc == use_cmake(req)
            IN  b' = IF uz \/ uc
                     THEN [b EXCEPT !.use_zig = uz, !.use_cmake = uc,
                            !.pc = IF uz THEN "ensure_zig" ELSE "ensure_cmake"]
                     ELSE [EnterLibraries("Cdylib") EXCEPT
                            !.use_zig = uz, !.use_cmake = uc]
    /\ UNCHANGED <<cache_vars, cli_vars, host, req, thr, trace>>

\* str::trim, for an output that ends with at most one line feed
trim(str) ==
    IF Len(str) > 0 /\ SubSeq(str, Len(str), Len(str)) = "\n"
    THEN SubSeq(str, 1, Len(str) - 1) ELSE str

\* str::split('.')
RECURSIVE SplitDot(_, _, _, _)
SplitDot(str, i, cur, acc) ==
    IF i > Len(str) THEN Append(acc, cur)
    ELSE IF SubSeq(str, i, i) = "."
    THEN SplitDot(str, i + 1, "", Append(acc, cur))
    ELSE SplitDot(str, i + 1, cur \o SubSeq(str, i, i), acc)

DecimalDigits == <<"0", "1", "2", "3", "4", "5", "6", "7", "8", "9">>

\* str::parse::<u32>().unwrap_or_default(): the value of a nonempty string
\* of decimal digits, otherwise 0 (the strings parsed here have fewer than
\* ten characters, so the value fits in 32 bits)
RECURSIVE parse_u32(_, _, _)
parse_u32(str, i, acc) ==
    IF Len(str) = 0 THEN 0
    ELSE IF i > Len(str) THEN acc
    ELSE LET c == SubSeq(str, i, i) IN
         IF \A d \in 1..10 : DecimalDigits[d] # c THEN 0
         ELSE parse_u32(str, i + 1,
                acc * 10 + (CHOOSE d \in 1..10 : DecimalDigits[d] = c) - 1)

\* zig.rs lines 61-67: the second dot-separated part of the output of
\* `zig version` as a number, 0 when there is none
zig_minor(zig_version) ==
    LET parts == SplitDot(trim(zig_version), 1, "", <<>>) IN
    IF Len(parts) < 2 THEN 0 ELSE parse_u32(parts[2], 1, 0)

\* what `zig version` prints; "" also stands for a zig that could not be
\* run (unwrap_or_default)
ZigVersions == {"", "0.13.0\n", "0.14.0\n", "1.2.0\n", "zig\n"}

\* ensure_zig_installed continues at ensure_cmake_installed (use_zig
\* implies use_cmake) or fails; the event is `zig version` together with
\* the test of what it printed
ZigChecked(zig_version, ok) ==
    /\ Run(Ev("zig version", "", "", "", ok))
    /\ b' = IF ~ok
            THEN [b EXCEPT !.pc = "done", !.zig_version = zig_version,
                    !.result = [returned |-> TRUE, ok |-> FALSE,
                                val |-> "cross compilation requires zig"]]
            ELSE IF b.use_cmake
            THEN [b EXCEPT !.pc = "ensure_cmake",
                           !.zig_version = zig_version]
            ELSE [EnterLibraries("Cdylib") EXCEPT
                           !.zig_version = zig_version]
    /\ UNCHANGED <<cache_vars, cli_vars, host, req, thr>>

\* zig.rs: ensure_zig_installed
ensure_zig_installed ==
    /\ b.pc = "ensure_zig"
    /\ \E zig_version \in ZigVersions :
        ZigChecked(zig_version, zig_minor(zig_version) >= 14)

ensure_cmake_installed_SkipDeps ==
    /\ b.pc = "ensure_cmake"
    /\ \E ok \in BOOLEAN :
        /\ Run(Ev("cmake --version", "", "", "", ok))
        /\ IF ~ok THEN Return(Err("bundling requires cmake"))
           ELSE b' = EnterLibraries(IF b.use_cmake THEN "Staticlib"
                                    ELSE "Cdylib")
    /\ UNCHANGED <<cache_vars, cli_vars, host, req, thr>>
\* cmake.rs: ensure_cmake_installed
ensure_cmake_installed ==
    /\ b.pc = "ensure_cmake"
    /\ \E ok \in BOOLEAN :
        /\ Run(Ev("cmake --version", "", "", "", ok))
        /\ IF ~ok THEN Return(Err("bundling requires cmake"))
           ELSE b' = IF ~b.use_cmake THEN EnterLibraries("Cdylib")
                     ELSE [b EXCEPT !.pc = "spawn_vst3"]
    /\ UNCHANGED <<cache_vars, cli_vars, host, req, thr>>

(***************************************************************************)
(* mod.rs: load_dependencies                                               *)
(***************************************************************************)
DepsDir == "target/clap-wrapper/deps/"

\* line 405: scope.spawn of the VST3 task
ld_spawn_vst3 ==
    /\ b.pc = "spawn_vst3"
    /\ thr' = [thr EXCEPT !["vst3"].pc = "run"]
    /\ b' = [b EXCEPT !.pc = "spawn_pico"]
    /\ UNCHANGED <<cache_vars, cli_vars, host, req, trace>>

\* line 429: scope.spawn of the wrapper-resolution task
ld_spawn_pico ==
    /\ b.pc = "spawn_pico"
    /\ thr' = [thr EXCEPT !["pico"].pc = "cargo_workspace_dir"]
    /\ b' = [b EXCEPT !.pc = "join_vst3"]
    /\ UNCHANGED <<cache_vars, cli_vars, host, req, trace>>

\* thread t runs the external command ev and goes to pc, or finishes with r
RunIn(t, ev, pc) ==
    thr' = [thr EXCEPT ![t].pc = pc, ![t].log = Append(@, ev)]
RunAndFinish(t, ev, r) ==
    thr' = [thr EXCEPT ![t].pc = "finished", ![t].result = r,
                       ![t].log = Append(@, ev)]
Finish(t, r) == thr' = [thr EXCEPT ![t].pc = "finished", ![t].result = r]

\* cache.load(item) run by thread t: a hit returns the finalized directory;
\* a miss fetches the dependency, which succeeds (the finalized directory
\* is there, complete) or fails (a tmp directory may be left)
CacheLoad(t, item, ok) ==
    LET final == folder_path(item)
        tmp == tmp_folder(item)
    IN  IF fs[final].exists
        THEN /\ Finish(t, Ok(Some(DepsDir \o final)))
             /\ UNCHANGED fs
        ELSE LET ev == Ev("fetch", "", folder_name(item), "", ok) IN
             IF ok
             THEN /\ fs' = [fs EXCEPT
                        ![final] = Dir({<<n, 1>> : n \in FullContent(item)}),
                        ![tmp] = NoDir]
                  /\ RunAndFinish(t, ev, Ok(Some(DepsDir \o final)))
             ELSE /\ fs' = [fs EXCEPT ![tmp] = Dir({<<"partial", 1>>})]
                  /\ RunAndFinish(t, ev,
                        Err("failed to load " \o folder_name(item)))

\* lines 405-427: the VST3 task
vst3_task ==
    /\ thr["vst3"].pc = "run"
    /\ \E ok \in BOOLEAN :
        CASE req.vst3 = "OpenSource" -> CacheLoad("vst3", Vst3OSS(VST3_COMMIT), ok)
          [] req.vst3 = "Proprietary" -> CacheLoad("vst3", Vst3Proprietary, ok)
          [] req.vst3 = "Local" ->
                \* `ok` is path.exists(); canonicalize fails on a missing path
                /\ Finish("vst3", IF ok THEN Ok(Some("local-vst3-sdk"))
                                  ELSE Err("io: No such file or directory"))
                /\ UNCHANGED fs
          [] req.vst3 = "None" ->
                /\ ok
                /\ Finish("vst3", Ok(None))
                /\ UNCHANGED fs
    /\ UNCHANGED <<proc, calls, flaky, cli_vars, host, req, b, trace>>

\* line 430: cargo_workspace_dir()?
pico_workspace_dir ==
    /\ thr["pico"].pc = "cargo_workspace_dir"
    /\ \E ok \in BOOLEAN :
        LET ev == Ev("cargo locate-project", "", "", "", ok) IN
        IF ok THEN RunIn("pico", ev, "cargo_metadata")
        ELSE RunAndFinish("pico", ev, Err("cargo locate-project failed"))
    /\ UNCHANGED <<cache_vars, cli_vars, host, req, b, trace>>

\* lines 431-438: cargo_metadata()? and the local-cmake-path key
pico_metadata ==
    /\ thr["pico"].pc = "cargo_metadata"
    /\ \E ok \in BOOLEAN, local \in BOOLEAN :
        LET ev == Ev("cargo metadata", "", "", "", ok) IN
        IF ~ok
        THEN ~local /\ RunAndFinish("pico", ev, Err("cargo metadata failed"))
        ELSE IF local
        THEN RunAndFinish("pico", ev, Ok(Some("workspace/local-cmake")))
        ELSE RunIn("pico", ev, "load")
    /\ UNCHANGED <<cache_vars, cli_vars, host, req, b, trace>>

\* line 442: cache.load(&Dependency::SelfCmake(GIT_HASH))
pico_load ==
    /\ thr["pico"].pc = "load"
    /\ \E ok \in BOOLEAN : CacheLoad("pico", SelfCmake(GIT_HASH), ok)
    /\ UNCHANGED <<proc, calls, flaky, cli_vars, host, req, b, trace>>

\* line 446: unwrap_thread(vst3.join())?
ld_join_vst3 ==
    /\ b.pc = "join_vst3"
    /\ thr["vst3"].pc = "finished"
    /\ b' = IF thr["vst3"].result.ok
            THEN [b EXCEPT !.pc = "join_pico",
                           !.vst3_sdk = thr["vst3"].result.val]
            ELSE [b EXCEPT !.pc = "scope_exit",
                           !.deps = Err(thr["vst3"].result.val)]
    /\ UNCHANGED <<cache_vars, cli_vars, host, req, thr, trace>>

\* line 447: unwrap_thread(pico.join())?
ld_join_pico ==
    /\ b.pc = "join_pico"
    /\ thr["pico"].pc = "finished"
    /\ b' = IF thr["pico"].result.ok
            THEN [b EXCEPT !.pc = "scope_exit",
                           !.pico_cmake = thr["pico"].result.val.val]
            ELSE [b EXCEPT !.pc = "scope_exit",
                           !.deps = Err(thr["pico"].result.val)]
    /\ UNCHANGED <<cache_vars, cli_vars, host, req, thr, trace>>

ld_scope_exit_NoWait ==
    /\ b.pc = "scope_exit"
    /\ Run(Ev("load_dependencies", "", "", "", b.deps.ok))
    /\ IF b.deps.ok THEN b' = EnterLibraries("Staticlib")
       ELSE Return(b.deps)
    /\ UNCHANGED <<cache_vars, cli_vars, host, req, thr>>
\* lines 404, 450: std::thread::scope returns when every spawned thread has
\* finished; line 193: load_dependencies(..)?
ld_scope_exit ==
    /\ b.pc = "scope_exit"
    /\ \A t \in DOMAIN thr : thr[t].pc = "finished"
    /\ Run(Ev("load_dependencies", "", "", "", b.deps.ok))
    /\ IF b.deps.ok THEN b' = EnterLibraries("Staticlib")
       ELSE Return(b.deps)
    /\ UNCHANGED <<cache_vars, cli_vars, host, req, thr>>

(***************************************************************************)
(* mod.rs: build_libraries                                                 *)
(***************************************************************************)
IntermediateArtifact(target, artifact, path, zig, osx_arch) ==
    [target |-> target, package |-> artifact.package, path |-> path,
     native_static_libs |-> artifact.native_static_libs,
     zig_triple |-> zig, osx_arch |-> osx_arch]

\* artifacts.into_iter().map(..): one IntermediateArtifact per CargoArtifact
RECURSIVE Intermediates(_, _, _, _)
Intermediates(target, artifacts, zig, osx_arch) ==
    IF artifacts = <<>> THEN <<>>
    ELSE <<IntermediateArtifact(target, Head(artifacts), Head(artifacts).path,
                zig, osx_arch)>>
            \o Intermediates(target, Tail(artifacts), zig, osx_arch)

\* the end of one iteration of `for target in targets`
NextTarget(bb) ==
    [bb EXCEPT !.ti = bb.ti + 1,
               !.pc = IF bb.ti + 1 > Len(req.targets)
                      THEN "libs_done" ELSE "target"]

\* lines 271-276
osx_arch_of(triple) ==
    CASE triple.operating_system = "macosx" -> None
      [] triple.architecture = "aarch64" -> Some("arm64")
      [] triple.architecture = "x86_64" -> Some("x86_64")
      [] OTHER -> None

\* lines 270-305: BuildTarget::Triple
bl_triple ==
    /\ b.pc = "target"
    /\ req.targets[b.ti].kind = "Triple"
    /\ LET target == req.targets[b.ti]
           triple == target.triple
           zt == zig_triple(triple, None)
       IN  IF ~is_supported(target, host) /\ ~zt.ok
           THEN Return(zt) /\ UNCHANGED trace
           ELSE \E exit_ok \in BOOLEAN :
                LET r == cargo_build(
                            CargoBuild(b.crate_type, req.packages, triple),
                            exit_ok)
                    zig == IF is_supported(target, host) THEN None
                           ELSE Some(zt.val)
                IN  /\ Run(EvFor(b.ti, "cargo rustc", b.crate_type,
                                TripleToString(triple), "", <<>>, exit_ok))
                    /\ IF ~r.ok THEN Return(r)
                       ELSE b' = NextTarget([b EXCEPT !.artifacts =
                                @ \o Intermediates(target, r.val, zig,
                                        osx_arch_of(triple))])
    /\ UNCHANGED <<cache_vars, cli_vars, host, req, thr>>

\* lines 307-331: BuildTarget::TripleGlibc
bl_triple_glibc ==
    /\ b.pc = "target"
    /\ req.targets[b.ti].kind = "TripleGlibc"
    /\ LET target == req.targets[b.ti]
           triple == target.triple
           zt == zig_triple(triple, Some(target.glibc))
       IN  IF ~zt.ok
           THEN Return(zt) /\ UNCHANGED trace
           ELSE \E exit_ok \in BOOLEAN :
                LET r == cargo_build(
                            CargoBuild(b.crate_type, req.packages, triple),
                            exit_ok)
                IN  /\ Run(EvFor(b.ti, "cargo rustc", b.crate_type,
                                TripleToString(triple), "", <<>>, exit_ok))
                    /\ IF ~r.ok THEN Return(r)
                       ELSE b' = NextTarget([b EXCEPT !.artifacts =
                                @ \o Intermediates(target, r.val,
                                        Some(zt.val), None)])
    /\ UNCHANGED <<cache_vars, cli_vars, host, req, thr>>

\* .map(|x| (x.package.clone(), x)).collect::<HashMap<_, _>>(): for a
\* package listed twice the later artifact replaces the earlier one
ToHashMap(artifacts) ==
    [p \in {artifacts[i].package : i \in 1..Len(artifacts)} |->
        LET last == CHOOSE i \in 1..Len(artifacts) :
                        /\ artifacts[i].package = p
                        /\ \A j \in 1..Len(artifacts) :
                                artifacts[j].package = p => j <= i
        IN  artifacts[last]]

\* HashMap::remove: what is left of the map
Removed(map, key) == [k \in DOMAIN map \ {key} |-> map[k]]

\* lines 334-346: the compiler for aarch64-apple-darwin
bl_universal_aarch64 ==
    /\ b.pc = "target"
    /\ req.targets[b.ti].kind = "AppleUniversal"
    /\ \E exit_ok \in BOOLEAN :
        LET r == cargo_build(
                    CargoBuild(b.crate_type, req.packages, AARCH64_APPLE_DARWIN),
                    exit_ok)
        IN  /\ Run(EvFor(b.ti, "cargo rustc", b.crate_type,
                        TripleToString(AARCH64_APPLE_DARWIN), "", <<>>, exit_ok))
            /\ IF ~r.ok THEN Return(r)
               ELSE b' = [b EXCEPT !.pc = "universal_x86_64",
                                   !.output_aarch64 = ToHashMap(r.val)]
    /\ UNCHANGED <<cache_vars, cli_vars, host, req, thr>>

bl_universal_x86_64_NoCheck ==
    /\ b.pc = "universal_x86_64"
    /\ \E exit_ok \in BOOLEAN :
        LET r == cargo_build(
                    CargoBuild(b.crate_type, req.packages, X86_64_APPLE_DARWIN),
                    TRUE)
        IN  /\ Run(EvFor(b.ti, "cargo rustc", b.crate_type,
                        TripleToString(X86_64_APPLE_DARWIN), "", <<>>, exit_ok))
            /\ b' = [b EXCEPT !.pc = "lipo", !.pi = 1,
                              !.output_x86_64 = ToHashMap(r.val)]
    /\ UNCHANGED <<cache_vars, cli_vars, host, req, thr>>
\* lines 348-360: the compiler for x86_64-apple-darwin
bl_universal_x86_64 ==
    /\ b.pc = "universal_x86_64"
    /\ \E exit_ok \in BOOLEAN :
        LET r == cargo_build(
                    CargoBuild(b.crate_type, req.packages, X86_64_APPLE_DARWIN),
                    exit_ok)
        IN  /\ Run(EvFor(b.ti, "cargo rustc", b.crate_type,
                        TripleToString(X86_64_APPLE_DARWIN), "", <<>>, exit_ok))
            /\ IF ~r.ok THEN Return(r)
               ELSE b' = [b EXCEPT !.pc = "lipo", !.pi = 1,
                                   !.output_x86_64 = ToHashMap(r.val)]
    /\ UNCHANGED <<cache_vars, cli_vars, host, req, thr>>

\* Path::file_name: what follows the last "/"
RECURSIVE file_name(_)
file_name(path) ==
    IF \E i \in 1..Len(path) : SubSeq(path, i, i) = "/"
    THEN file_name(SubSeq(path, 2, Len(path)))
    ELSE path

\* lines 362-383: one iteration of `for package in &packages`
bl_universal_lipo ==
    /\ b.pc = "lipo"
    /\ LET target == req.targets[b.ti]
           package == req.packages[b.pi]
           both == package \in DOMAIN b.output_aarch64
                    /\ package \in DOMAIN b.output_x86_64
           after == [b EXCEPT
                        !.output_aarch64 = Removed(@, package),
                        !.output_x86_64 = Removed(@, package),
                        !.pi = b.pi + 1]
           step(bb) == IF bb.pi > Len(req.packages)
                       THEN NextTarget(bb) ELSE bb
       IN  IF ~both
           THEN b' = step(after) /\ UNCHANGED trace
           ELSE \E exit_ok \in BOOLEAN :
                LET aarch64 == b.output_aarch64[package]
                    x86_64 == b.output_x86_64[package]
                    universal == "target/universal-apple-darwin/"
                                    \o file_name(aarch64.path)
                IN  /\ Run(EvFor(b.ti, "lipo", b.crate_type, universal,
                                aarch64.package,
                                <<aarch64.path, x86_64.path>>, exit_ok))
                    /\ IF ~exit_ok THEN Return(Err("lipo failed"))
                       ELSE b' = step([after EXCEPT !.artifacts =
                                Append(@, IntermediateArtifact(target, aarch64,
                                    universal, None, Some("x86_64;arm64")))])
    /\ UNCHANGED <<cache_vars, cli_vars, host, req, thr>>

(***************************************************************************)
(* mod.rs: build, after build_libraries; cmake.rs: build_wrapper           *)
(***************************************************************************)
BuildArtifact(package, target, format, path) ==
    [package |-> package, target |-> target, format |-> format, path |-> path]

RECURSIVE ClapArtifacts(_)
ClapArtifacts(artifacts) ==
    IF artifacts = <<>> THEN <<>>
    ELSE <<BuildArtifact(Head(artifacts).package, Head(artifacts).target,
                "Clap", Head(artifacts).path)>>
            \o ClapArtifacts(Tail(artifacts))

\* lines 169-190 and 192, 205: what follows build_libraries(..)?
build_after_libraries ==
    /\ b.pc = "libs_done"
    /\ IF ~b.use_cmake
       THEN Return(Ok(ClapArtifacts(b.artifacts)))
       ELSE b' = [b EXCEPT !.pc = "wrapper", !.ai = 1, !.output = <<>>]
    /\ UNCHANGED <<cache_vars, cli_vars, host, req, thr, trace>>

\* cmake.rs lines 32-35
wrapper_build_dir(artifact) ==
    "target/clap-wrapper/build/" \o
        (IF artifact.zig_triple.some THEN artifact.zig_triple.val ELSE "host")

\* PathBuf::with_extension, for a file name that holds no "."
with_extension(path, ext) == path \o "." \o ext

ClapWrapperOutput_AnyArch(artifact, vst3, auv2) ==
    LET output == wrapper_build_dir(artifact) \o "/clap-wrapper-output/"
                    \o artifact.package \o "/" \o artifact.package
    IN  [clap |-> with_extension(output, "clap"),
         vst3 |-> IF vst3.some THEN Some(with_extension(output, "vst3"))
                  ELSE None,
         auv2 |-> IF auv2 THEN Some(with_extension(output, "component"))
                  ELSE None]
\* cmake.rs lines 91-104
ClapWrapperOutput(artifact, vst3, auv2) ==
    LET output == wrapper_build_dir(artifact) \o "/clap-wrapper-output/"
                    \o artifact.package \o "/" \o artifact.package
    IN  [clap |-> with_extension(output, "clap"),
         vst3 |-> IF vst3.some THEN Some(with_extension(output, "vst3"))
                  ELSE None,
         auv2 |-> IF auv2 /\ artifact.osx_arch.some
                  THEN Some(with_extension(output, "component")) ELSE None]

\* cmake.rs lines 52-69: cmake <cmake_dir>, in the build directory
build_wrapper_configure ==
    /\ b.pc = "wrapper"
    /\ b.ai <= Len(b.artifacts)
    /\ \E exit_ok \in BOOLEAN :
        LET artifact == b.artifacts[b.ai] IN
        /\ Run(Ev("cmake configure", "", wrapper_build_dir(artifact),
                    artifact.package, exit_ok))
        /\ IF ~exit_ok THEN Return(Err("failed to configure clap-wrapper"))
           ELSE b' = [b EXCEPT !.pc = "cmake_build"]
    /\ UNCHANGED <<cache_vars, cli_vars, host, req, thr>>

build_wrapper_build_KeepGoing ==
    /\ b.pc = "cmake_build"
    /\ \E exit_ok \in BOOLEAN :
        LET artifact == b.artifacts[b.ai] IN
        /\ Run(Ev("cmake --build", "", wrapper_build_dir(artifact),
                    artifact.package, exit_ok))
        /\ b' = [b EXCEPT !.pc = "wrapper", !.ai = b.ai + 1,
                    !.output = IF exit_ok
                        THEN Append(@, BuildArtifact(artifact.package,
                                artifact.target, "Clap", "x.clap"))
                        ELSE @]
    /\ UNCHANGED <<cache_vars, cli_vars, host, req, thr>>
\* cmake.rs lines 71-104: cmake --build . ; mod.rs lines 218-240
build_wrapper_build ==
    /\ b.pc = "cmake_build"
    /\ \E exit_ok \in BOOLEAN :
        LET artifact == b.artifacts[b.ai]
            w == ClapWrapperOutput(artifact, b.vst3_sdk, req.auv2)
            vst3 == IF w.vst3.some
                    THEN <<BuildArtifact(artifact.package, artifact.target,
                                "Vst3", w.vst3.val)>>
                    ELSE <<>>
            auv2 == IF w.auv2.some
                    THEN <<BuildArtifact(artifact.package, artifact.target,
                                "Auv2", w.auv2.val)>>
                    ELSE <<>>
            clap == <<BuildArtifact(artifact.package, artifact.target,
                                "Clap", w.clap)>>
        IN
        /\ Run(Ev("cmake --build", "", wrapper_build_dir(artifact),
                    artifact.package, exit_ok))
        /\ IF ~exit_ok THEN Return(Err("failed to build clap-wrapper"))
           ELSE b' = [b EXCEPT !.pc = "wrapper", !.ai = b.ai + 1,
                               !.output = @ \o vst3 \o auv2 \o clap]
    /\ UNCHANGED <<cache_vars, cli_vars, host, req, thr>>

\* line 243: Ok(output)
build_return ==
    /\ b.pc = "wrapper"
    /\ b.ai > Len(b.artifacts)
    /\ Return(Ok(b.output))
    /\ UNCHANGED <<cache_vars, cli_vars, host, req, thr, trace>>

(***************************************************************************)
(* cmake.rs: format_native_static_libs                                     *)
(***************************************************************************)
\* char::is_whitespace, for the characters of the inputs
IsWhitespace(c) == c \in {" ", "\t", "\n"}

\* str::split_whitespace: the maximal runs of characters that are not
\* whitespace, in order
RECURSIVE SplitFrom(_, _, _, _)
SplitFrom(str, i, cur, acc) ==
    IF i > Len(str)
    THEN (IF cur = "" THEN acc ELSE Append(acc, cur))
    ELSE LET c == SubSeq(str, i, i) IN
         IF IsWhitespace(c)
         THEN SplitFrom(str, i + 1, "", IF cur = "" THEN acc ELSE Append(acc, cur))
         ELSE SplitFrom(str, i + 1, cur \o c, acc)

split_whitespace(str) == SplitFrom(str, 1, "", <<>>)

\* str::starts_with
HasPrefix(str, prefix) ==
    Len(str) >= Len(prefix) /\ SubSeq(str, 1, Len(prefix)) = prefix

\* str::strip_prefix(..).unwrap_or(arg), str::strip_suffix(..).unwrap_or(arg)
strip_prefix_or(arg, prefix) ==
    IF Len(arg) >= Len(prefix) /\ SubSeq(arg, 1, Len(prefix)) = prefix
    THEN SubSeq(arg, Len(prefix) + 1, Len(arg))
    ELSE arg

strip_suffix_or(arg, suffix) ==
    IF Len(arg) >= Len(suffix)
        /\ SubSeq(arg, Len(arg) - Len(suffix) + 1, Len(arg)) = suffix
    THEN SubSeq(arg, 1, Len(arg) - Len(suffix))
    ELSE arg

\* [String]::join
RECURSIVE join(_, _)
join(strs, sep) ==
    IF strs = <<>> THEN ""
    ELSE IF Len(strs) = 1 THEN strs[1]
    ELSE strs[1] \o sep \o join(Tail(strs), sep)

\* the `for arg in ..` loop of lines 126-140, from the k-th token on
RECURSIVE FormatLoop_NoFramework(_, _, _, _)
FormatLoop_NoFramework(args, k, s_framework, libs) ==
    IF k > Len(args) THEN libs
    ELSE FormatLoop_NoFramework(args, k + 1, FALSE,
            Append(libs, strip_suffix_or(strip_prefix_or(args[k], "-l"),
                                         ".lib")))
RECURSIVE FormatLoop(_, _, _, _)
FormatLoop(args, k, s_framework, libs) ==
    IF k > Len(args) THEN libs
    ELSE IF s_framework
    THEN FormatLoop(args, k + 1, FALSE,
            Append(libs, "-framework " \o args[k]))
    ELSE IF args[k] = "-framework"
    THEN FormatLoop(args, k + 1, TRUE, libs)
    ELSE FormatLoop(args, k + 1, FALSE,
            Append(libs, strip_suffix_or(strip_prefix_or(args[k], "-l"),
                                         ".lib")))

format_native_static_libs(native_static_libs) ==
    join(FormatLoop(split_whitespace(native_static_libs), 1, FALSE, <<>>),
         ";")

\* no call of format_native_static_libs
FmtIdle == [pc |-> "idle", tokens |-> <<>>, input |-> "", output |-> ""]

\* the call returns
FormatNativeStaticLibs ==
    /\ fmtlibs.pc = "called"
    /\ fmtlibs' = [fmtlibs EXCEPT !.pc = "returned",
                    !.output = format_native_static_libs(fmtlibs.input)]
    /\ UNCHANGED <<cache_vars, build_vars, command, pipe, reporter, more_vars>>

(***************************************************************************)
(* cmd.rs: Command, the builder and format_program                        *)
(***************************************************************************)
\* the escape character that starts a styling sequence, written ^ here
ESC == "^"

\* owo_colors: the text between the sequence that sets a style and the
\* sequence that resets it
Styled(on, text, off) ==
    ESC \o "[" \o on \o "m" \o text \o ESC \o "[" \o off \o "m"
bold(text) == Styled("1", text, "0")
bright_black(text) == Styled("90", text, "39")
bright_red(text) == Styled("91", text, "39")
bright_yellow(text) == Styled("93", text, "39")
bright_blue(text) == Styled("94", text, "39")

\* enum Component
CompEnv(key, value) == [kind |-> "Env", key |-> key, value |-> value]
CompCmd(cmd) == [kind |-> "Cmd", key |-> "", value |-> cmd]
CompArg(arg) == [kind |-> "Arg", key |-> "", value |-> arg]
CompArgSecret(arg) == [kind |-> "ArgSecret", key |-> "", value |-> arg]

\* arg.chars().take(3).collect::<String>()
take3(arg) == SubSeq(arg, 1, IF Len(arg) < 3 THEN Len(arg) ELSE 3)

\* format_program: one component
FormatComponent(c) ==
    CASE c.kind = "Env" ->
            bold(bright_yellow(c.key)) \o "=" \o bright_blue(c.value) \o " "
      [] c.kind = "Cmd" -> bold(bright_blue(c.value))
      [] c.kind = "Arg" -> " " \o bright_black(c.value)
      [] c.kind = "ArgSecret" -> " " \o bright_black(take3(c.value)) \o "**"

RECURSIVE format_program(_)
format_program(cmd) ==
    IF cmd = <<>> THEN ""
    ELSE FormatComponent(Head(cmd)) \o format_program(Tail(cmd))

\* no Command
CommandIdle ==
    [pc |-> "idle", print |-> <<>>, mode |-> "", child |-> <<>>,
     delivered |-> <<>>, result |-> Ok("")]

\* Command::new
Command_new(program) ==
    [CommandIdle EXCEPT !.pc = "building", !.print = <<CompCmd(program)>>]

Building ==
    /\ command.pc = "building"
    /\ Len(command.print) <= MaxComponents

\* Command::arg (and Command::args, one arg at a time)
Command_arg ==
    /\ Building
    /\ \E arg \in {"-v", "abcd"} :
        command' = [command EXCEPT !.print = Append(@, CompArg(arg))]
    /\ UNCHANGED <<cache_vars, build_vars, fmtlibs, pipe, reporter, more_vars>>

\* Command::arg_secret
Command_arg_secret ==
    /\ Building
    /\ \E arg \in {"pw", "abc", "abcd", "hunter2"} :
        command' = [command EXCEPT !.print = Append(@, CompArgSecret(arg))]
    /\ UNCHANGED <<cache_vars, build_vars, fmtlibs, pipe, reporter, more_vars>>

\* Command::cwd
Command_cwd ==
    /\ Building
    /\ \E path \in {"dir"} :
        command' = [command EXCEPT
                        !.print = <<CompEnv("CWD", path)>> \o @]
    /\ UNCHANGED <<cache_vars, build_vars, fmtlibs, pipe, reporter, more_vars>>

\* Command::env (and Command::envs, one pair at a time)
Command_env ==
    /\ Building
    /\ \E kv \in {<<"KEY", "val">>} :
        command' = [command EXCEPT
                        !.print = <<CompEnv(kv[1], kv[2])>> \o @]
    /\ UNCHANGED <<cache_vars, build_vars, fmtlibs, pipe, reporter, more_vars>>

(***************************************************************************)
(* cmd.rs: the subprocess and the run methods.  Output is a sequence of    *)
(* lines of bytes; the byte written # here is one that is not valid UTF-8. *)
(***************************************************************************)
INVALID == "#"
\* U+FFFD, written ? here
REPLACEMENT == "?"

\* String::from_utf8_lossy
RECURSIVE from_utf8_lossy(_)
from_utf8_lossy(bytes) ==
    IF Len(bytes) = 0 THEN ""
    ELSE (IF SubSeq(bytes, 1, 1) = INVALID THEN REPLACEMENT
          ELSE SubSeq(bytes, 1, 1))
            \o from_utf8_lossy(SubSeq(bytes, 2, Len(bytes)))

\* str::from_utf8(bytes).is_ok()
IsUtf8(bytes) == \A i \in 1..Len(bytes) : SubSeq(bytes, i, i) # INVALID

\* ExitStatus::code() of a subprocess that a signal ended
NoCode == [some |-> FALSE, val |-> 0]

\* what a subprocess does: whether it can be spawned, the lines it writes
\* to its standard output and standard error, and how it ends
\* (ExitStatus::code(): Some(code), or None when a signal ended it)
Children ==
    [spawn_ok : BOOLEAN,
     stdout : {<<>>, <<"out\n", "out\n", "end\n">>, <<"a\n", "b#\n", "c\n">>},
     stderr : {<<>>, <<"boom\n", "oops\n">>, <<"warn\n", "bad#\n">>},
     code : {Some(0), Some(1), NoCode}]

\* ExitStatus::success()
success(child) == child.code.some /\ child.code.val = 0

\* Error::new(message): the trace is the span stack of the calling thread,
\* which has no span here
Error_new(message) == [message |-> message, trace |-> <<>>, note |-> <<>>]
with_note(err, note) == [err EXCEPT !.note = Append(@, note)]

\* format_error
format_error(program, stderr, status) ==
    LET err == with_note(Error_new(stderr),
                    "the command ran was " \o bold(program))
    IN  IF ~status.some THEN err
        ELSE with_note(err,
                IF status.val.some
                THEN "exit code: " \o bold(bright_red(ToString(status.val.val)))
                ELSE "terminated by a signal")

\* read_to_end: the lines given to `stream` and the result; read_line
\* fails on a line that is not valid UTF-8
RECURSIVE read_to_end(_, _)
read_to_end(lines, streamed) ==
    IF lines = <<>> THEN [streamed |-> streamed, result |-> Ok("")]
    ELSE IF ~IsUtf8(Head(lines))
    THEN [streamed |-> streamed,
          result |-> Err(Error_new(
                "stream did not contain valid UTF-8"))]
    ELSE read_to_end(Tail(lines), Append(streamed, Head(lines)))

\* io::Error of a spawn that failed
SpawnError == "No such file or directory (os error 2)"

\* Command::run
Command_run ==
    /\ command.pc = "building"
    /\ \E child \in Children :
        LET program == format_program(command.print)
            result ==
                IF ~child.spawn_ok
                THEN Err(format_error(program, SpawnError, None))
                ELSE IF success(child)
                THEN Ok(from_utf8_lossy(join(child.stdout, "")))
                ELSE Err(format_error(program,
                            from_utf8_lossy(join(child.stderr, "")),
                            Some(child.code)))
        IN  command' = [command EXCEPT !.pc = "returned", !.mode = "run",
                            !.child = child, !.result = result]
    /\ UNCHANGED <<cache_vars, build_vars, fmtlibs, pipe, reporter, more_vars>>

\* Command::run_stdout
Command_run_stdout ==
    /\ command.pc = "building"
    /\ \E child \in Children :
        LET program == format_program(command.print)
            read == read_to_end(child.stdout, <<>>)
            result ==
                IF ~child.spawn_ok
                THEN Err(format_error(program, SpawnError, None))
                ELSE IF ~read.result.ok THEN read.result
                ELSE IF ~success(child)
                THEN Err(format_error(program,
                            from_utf8_lossy(join(child.stderr, "")),
                            Some(child.code)))
                ELSE Ok("")
        IN  command' = [command EXCEPT
                            !.pc = "returned", !.mode = "run_stdout",
                            !.child = child, !.result = result,
                            !.delivered = IF child.spawn_ok
                                          THEN read.streamed ELSE <<>>]
    /\ UNCHANGED <<cache_vars, build_vars, fmtlibs, pipe, reporter, more_vars>>

(***************************************************************************)
(* cmd.rs: Command::run_stdout_stderr and read_double_pipe.  Two threads   *)
(* read the two pipes line by line and send every line over one channel;   *)
(* the calling thread receives from the channel and calls the callbacks.   *)
(***************************************************************************)
\* a reader thread of read_double_pipe: the lines it has not read yet and
\* the result of its read_to_end
ReaderIdle == [pc |-> "unspawned", rest |-> <<>>, result |-> Ok("")]
PipeIdle ==
    [pc |-> "idle", left |-> ReaderIdle, right |-> ReaderIdle,
     channel |-> <<>>, output |-> <<>>]

\* the value a reader sends: Ok(line) from the left pipe (standard output),
\* Err(line) from the right pipe (standard error)
Sent(side, line) == IF side = "left" THEN Ok(line) ELSE Err(line)

\* Command::run_stdout_stderr up to the call of read_double_pipe: the
\* subprocess is spawned and the two reader threads are started
Command_run_stdout_stderr ==
    /\ command.pc = "building"
    /\ pipe.pc = "idle"
    /\ \E child \in Children :
        LET program == format_program(command.print)
        IN  IF ~child.spawn_ok
            THEN /\ command' = [command EXCEPT
                        !.pc = "returned", !.mode = "run_stdout_stderr",
                        !.child = child,
                        !.result = Err(format_error(program, SpawnError,
                                                    None))]
                 /\ UNCHANGED pipe
            ELSE /\ command' = [command EXCEPT
                        !.pc = "streaming", !.mode = "run_stdout_stderr",
                        !.child = child]
                 /\ pipe' = [pipe EXCEPT
                        !.pc = "recv",
                        !.left = [pc |-> "reading", rest |-> child.stdout,
                                  result |-> Ok("")],
                        !.right = [pc |-> "reading", rest |-> child.stderr,
                                   result |-> Ok("")]]
    /\ UNCHANGED <<cache_vars, build_vars, fmtlibs, reporter, more_vars>>

\* one turn of the loop of read_to_end in a reader thread: the end of the
\* pipe ends the thread with Ok, a line that is not valid UTF-8 ends it with
\* the error of read_line, any other line is sent over the channel.  The
\* thread's sender is dropped when the thread ends.
ReaderStep(side) ==
    /\ pipe.pc = "recv"
    /\ pipe[side].pc = "reading"
    /\ LET rest == pipe[side].rest
       IN  IF rest = <<>>
           THEN pipe' = [pipe EXCEPT ![side].pc = "finished",
                                     ![side].result = Ok("")]
           ELSE IF ~IsUtf8(Head(rest))
           THEN pipe' = [pipe EXCEPT
                    ![side].pc = "finished",
                    ![side].result = Err(Error_new(
                        "stream did not contain valid UTF-8"))]
           ELSE pipe' = [pipe EXCEPT
                    ![side].rest = Tail(rest),
                    !.channel = Append(@, Sent(side, Head(rest)))]
    /\ UNCHANGED <<cache_vars, build_vars, fmtlibs, command, reporter, more_vars>>

read_to_end_left == ReaderStep("left")
read_to_end_right == ReaderStep("right")

\* receiver.recv() returns a line: the output callback is called with it
Recv ==
    /\ pipe.pc = "recv"
    /\ pipe.channel # <<>>
    /\ pipe' = [pipe EXCEPT !.channel = Tail(@),
                            !.output = Append(@, Head(pipe.channel))]
    /\ UNCHANGED <<cache_vars, build_vars, fmtlibs, command, reporter, more_vars>>

\* receiver.recv() fails because the channel is empty and both senders are
\* dropped: the loop ends, the two threads are joined (the error of the left
\* one first), and run_stdout_stderr waits for the subprocess
read_double_pipe_join ==
    /\ pipe.pc = "recv"
    /\ pipe.channel = <<>>
    /\ pipe.left.pc = "finished"
    /\ pipe.right.pc = "finished"
    /\ pipe' = [pipe EXCEPT !.pc = "joined"]
    /\ LET program == format_program(command.print)
           child == command.child
           result ==
               IF ~pipe.left.result.ok THEN pipe.left.result
               ELSE IF ~pipe.right.result.ok THEN pipe.right.result
               ELSE IF ~success(child)
               THEN Err(format_error(program,
                        "program exited with non-zero exit code",
                        Some(child.code)))
               ELSE Ok("")
       IN  command' = [command EXCEPT !.pc = "returned", !.result = result]
    /\ UNCHANGED <<cache_vars, build_vars, fmtlibs, reporter, more_vars>>

(***************************************************************************)
(* trace.rs: StatusReporter.  stacks is a list of (thread, stack) pairs   *)
(* behind one mutex; report_span! keeps the guard that request_span        *)
(* returns in a local of the calling scope, so a thread drops its guards   *)
(* in the reverse order of their creation, when a scope is left normally   *)
(* or by an error that propagates out of it.                               *)
(***************************************************************************)
Threads == {"main", "vst3", "pico"}
Spans == {"build", "fetch"}
Messages == {"working"}

\* no thread has begun a span.  log_mode is the test of draw_string (forced
\* log, standard error not a terminal, or a terminal narrower than 20
\* columns); drawn is what the latest call of report wrote to standard error
ReporterIdle ==
    [stacks |-> <<>>,
     guards |-> [t \in Threads |-> <<>>],
     unwinding |-> [t \in Threads |-> FALSE],
     log_mode |-> FALSE,
     drawn |-> <<>>]

\* progress.rs, generate_event: the text of an event in log mode
EvBegin(span) == [kind |-> "Begin", text |-> span]
EvMessage(message) == [kind |-> "Message", text |-> message]
EvEnd == [kind |-> "End", text |-> ""]
EvUpdate == [kind |-> "Update", text |-> ""]
generate_event_AllEvents(event) ==
    IF event.kind = "Begin"
    THEN bold(bright_blue(">")) \o " " \o event.text
    ELSE "  " \o event.text
generate_event(event) ==
    IF event.kind = "Begin"
    THEN bold(bright_blue(">")) \o " " \o event.text
    ELSE IF event.kind = "Message" THEN "  " \o event.text
    ELSE ""

\* progress.rs, generate_status_bar: one line per span of every stack, the
\* innermost span of a stack marked by the spinner
SPINNER == "*"
RECURSIVE StatusLines(_, _)
StatusLines(stack, k) ==
    IF k > Len(stack) THEN <<>>
    ELSE <<bold(bright_blue(IF k = Len(stack) THEN SPINNER ELSE " "))
                \o " " \o stack[k].message>>
            \o StatusLines(stack, k + 1)
RECURSIVE generate_status_bar(_)
generate_status_bar(stacks) ==
    IF stacks = <<>> THEN <<>>
    ELSE StatusLines(Head(stacks).stack, 1)
            \o generate_status_bar(Tail(stacks))

\* str::lines: the parts between line feeds, without a carriage return at
\* their end and without an empty part after the last line feed
RECURSIVE SplitLines(_, _, _, _)
SplitLines(str, i, cur, acc) ==
    IF i > Len(str) THEN (IF cur = "" THEN acc ELSE Append(acc, cur))
    ELSE IF SubSeq(str, i, i) = "\n"
    THEN SplitLines(str, i + 1, "",
            Append(acc, IF Len(cur) > 0 /\ SubSeq(cur, Len(cur), Len(cur)) = "\r"
                        THEN SubSeq(cur, 1, Len(cur) - 1) ELSE cur))
    ELSE SplitLines(str, i + 1, cur \o SubSeq(str, i, i), acc)
str_lines(str) == SplitLines(str, 1, "", <<>>)

\* progress.rs, draw_string line 33: the test for log mode
unsupported(term) == term.force_log \/ ~term.is_term \/ term.width < 20

\* progress.rs, report and draw_string: the lines written to standard error
report(log_mode, stacks, event) ==
    IF log_mode
    THEN (IF generate_event(event) = "" THEN <<>>
          ELSE str_lines(generate_event(event)))
    ELSE generate_status_bar(stacks)

\* stacks.iter_mut().find(|x| x.0 == thread): the index of the first pair of
\* this thread, 0 when there is none
find(stacks, thread) ==
    IF \E i \in 1..Len(stacks) : stacks[i].thread = thread
    THEN CHOOSE i \in 1..Len(stacks) :
            /\ stacks[i].thread = thread
            /\ \A j \in 1..(i - 1) : stacks[j].thread # thread
    ELSE 0

\* stacks.retain(|x| x.0 != thread)
RECURSIVE retain_not(_, _)
retain_not(stacks, thread) ==
    IF stacks = <<>> THEN <<>>
    ELSE (IF Head(stacks).thread # thread THEN <<Head(stacks)>> ELSE <<>>)
            \o retain_not(Tail(stacks), thread)

\* a report_start that begins a new entry for every span
report_start_AlwaysPush(stacks, thread, span) ==
    Append(stacks, [thread |-> thread,
                    stack |-> <<[span |-> span, message |-> span]>>])
\* StatusReporter::report_start
report_start(stacks, thread, span) ==
    LET tr == [span |-> span, message |-> span]
        i == find(stacks, thread)
    IN  IF i # 0
        THEN [stacks EXCEPT ![i].stack = Append(@, tr)]
        ELSE Append(stacks, [thread |-> thread, stack |-> <<tr>>])

\* StatusReporter::report_end
report_end_FirstStack(stacks, thread) ==
    IF stacks = <<>> THEN stacks
    ELSE LET popped == [stacks EXCEPT
                            ![1].stack = SubSeq(@, 1, Len(@) - 1)]
         IN  IF popped[1].stack = <<>> THEN Tail(popped) ELSE popped
report_end(stacks, thread) ==
    LET i == find(stacks, thread)
    IN  IF i = 0 THEN stacks
        ELSE LET popped == [stacks EXCEPT
                                ![i].stack = SubSeq(@, 1, Len(@) - 1)]
             IN  IF popped[i].stack = <<>>
                 THEN retain_not(popped, thread)
                 ELSE popped

\* StatusReporter::request_span, called by report_span! on thread t: the
\* span is pushed and the guard EndStatus(thread) stays in the scope
request_span(t) ==
    /\ ~reporter.unwinding[t]
    /\ Len(reporter.guards[t]) < MaxDepth
    /\ \E span \in Spans :
        reporter' = [reporter EXCEPT
            !.stacks = report_start(@, t, span),
            !.guards[t] = Append(@, [thread |-> t, span |-> span]),
            !.drawn = report(reporter.log_mode,
                             report_start(reporter.stacks, t, span),
                             EvBegin(span))]
    /\ UNCHANGED <<cache_vars, build_vars, fmtlibs, command, pipe, more_vars>>

\* Drop for EndStatus: the innermost guard of thread t is dropped
DropGuard(t, unwinding) ==
    LET guards == reporter.guards[t]
        guard == guards[Len(guards)]
        found == find(reporter.stacks, guard.thread) # 0
    IN  reporter' = [reporter EXCEPT
            !.stacks = report_end(@, guard.thread),
            !.guards[t] = SubSeq(guards, 1, Len(guards) - 1),
            !.unwinding[t] = unwinding,
            !.drawn = IF found
                      THEN report(reporter.log_mode,
                                  report_end(reporter.stacks, guard.thread),
                                  EvEnd)
                      ELSE @]

\* StatusReporter::report_message on thread t: the message of the last
\* span of the stack of this thread is replaced, when there is one, and the
\* message is reported
set_message_AllSpans(stacks, thread, message) ==
    LET i == find(stacks, thread)
    IN  IF i = 0 THEN stacks
        ELSE [stacks EXCEPT ![i].stack =
                [k \in 1..Len(@) |-> [@[k] EXCEPT !.message = message]]]
set_message(stacks, thread, message) ==
    LET i == find(stacks, thread)
    IN  IF i = 0 THEN stacks
        ELSE IF stacks[i].stack = <<>> THEN stacks
        ELSE [stacks EXCEPT
                ![i].stack[Len(stacks[i].stack)].message = message]

report_message(t, message) ==
    /\ ~reporter.unwinding[t]
    /\ reporter' = [reporter EXCEPT
            !.stacks = set_message(@, t, message),
            !.drawn = report(reporter.log_mode,
                             set_message(reporter.stacks, t, message),
                             EvMessage(message))]
    /\ UNCHANGED <<cache_vars, build_vars, fmtlibs, command, pipe, more_vars>>

\* progress.rs, ensure_update_thread: the refresh thread reports an update
report_update ==
    /\ reporter' = [reporter EXCEPT
            !.drawn = report(reporter.log_mode, reporter.stacks, EvUpdate)]
    /\ UNCHANGED <<cache_vars, build_vars, fmtlibs, command, pipe, more_vars>>

\* thread t reaches the end of its innermost scope
ScopeExit(t) ==
    /\ ~reporter.unwinding[t]
    /\ reporter.guards[t] # <<>>
    /\ DropGuard(t, FALSE)
    /\ UNCHANGED <<cache_vars, build_vars, fmtlibs, command, pipe, more_vars>>

\* an error leaves the innermost scope of thread t: `?` returns from the
\* scope where it was raised, or from the next one when it is already
\* propagating
ErrorExit(t) ==
    /\ reporter.guards[t] # <<>>
    /\ DropGuard(t, TRUE)
    /\ UNCHANGED <<cache_vars, build_vars, fmtlibs, command, pipe, more_vars>>

\* the error of thread t is handled by a caller
ErrorHandled(t) ==
    /\ reporter.unwinding[t]
    /\ reporter' = [reporter EXCEPT !.unwinding[t] = FALSE]
    /\ UNCHANGED <<cache_vars, build_vars, fmtlibs, command, pipe, more_vars>>

(***************************************************************************)
(* error.rs: Error::new takes the spans of the calling thread from the     *)
(* StatusReporter; with_note and with_message change the value afterwards. *)
(***************************************************************************)
\* no Error was constructed.  thread, spans, notes and text record who
\* constructed the error, the spans that thread held then, and the
\* arguments of the calls of with_note and with_message since
ErrorIdle ==
    [pc |-> "idle", val |-> Error_new(""), thread |-> "",
     spans |-> <<>>, notes |-> <<>>, text |-> ""]

\* StatusReporter::request_trace with the callback of Error::new, and
\* unwrap_or_default: the span of every entry of the stack of the thread
request_trace(stacks, thread) ==
    LET i == find(stacks, thread)
    IN  IF i = 0 THEN <<>>
        ELSE [k \in 1..Len(stacks[i].stack) |-> stacks[i].stack[k].span]

\* Error::new on a thread
Error_new_on_NoTrace(stacks, thread, message) == Error_new(message)
Error_new_on(stacks, thread, message) ==
    [message |-> message,
     trace |-> request_trace(stacks, thread),
     note |-> <<>>]

\* Error::with_message
with_message(err, message) == [err EXCEPT !.message = message]

ErrorMessages == {"boom", "bad"}
Notes == {"n1", "n2"}

\* thread t constructs an Error
Error_new_by(t) ==
    /\ error.pc = "idle"
    /\ \E message \in ErrorMessages :
        error' = [pc |-> "built",
                  val |-> Error_new_on(reporter.stacks, t, message),
                  thread |-> t,
                  spans |-> [k \in 1..Len(reporter.guards[t]) |->
                                reporter.guards[t][k].span],
                  notes |-> <<>>,
                  text |-> message]
    /\ UNCHANGED <<cache_vars, build_vars, fmtlibs, command, pipe, reporter,
                   cargo, fncall, post>>

\* a caller adds a note to the error
Error_with_note ==
    /\ error.pc = "built"
    /\ Len(error.notes) < MaxNotes
    /\ \E note \in Notes :
        error' = [error EXCEPT !.val = with_note(@, note),
                               !.notes = Append(@, note)]
    /\ UNCHANGED <<cache_vars, build_vars, fmtlibs, command, pipe, reporter,
                   cargo, fncall, post>>

\* a caller replaces the message of the error
Error_with_message ==
    /\ error.pc = "built"
    /\ \E message \in ErrorMessages \ {error.text} :
        error' = [error EXCEPT !.val = with_message(@, message),
                               !.text = message]
    /\ UNCHANGED <<cache_vars, build_vars, fmtlibs, command, pipe, reporter,
                   cargo, fncall, post>>

(***************************************************************************)
(* cargo.rs: cargo_build with the lines the compiler writes.  A line of    *)
(* standard output is given as what tinyjson makes of it: whether it is an *)
(* object, its reason, and the fields of its message and target objects.   *)
(***************************************************************************)
JsonLine(reason, rendered, message, name) ==
    [utf8 |-> TRUE, object |-> TRUE, reason |-> reason,
     rendered |-> rendered, message |-> message, name |-> name]
\* a diagnostic, the native-static-libs note, a record of another reason,
\* a line that is no JSON object, and a line that is not valid UTF-8
DiagError == JsonLine("compiler-message", Some("error: E0308"),
                      Some("mismatched types"), Some("my_plug"))
DiagWarning == JsonLine("compiler-message", Some("warning: unused"),
                        Some("unused variable"), Some("my_plug"))
DiagLibs == JsonLine("compiler-message", Some("note: native-static-libs"),
                     Some("native-static-libs: -lc -lm"), Some("my_plug"))
OtherRecord == JsonLine("compiler-artifact", None, None, None)
TextLine == [OtherRecord EXCEPT !.object = FALSE, !.reason = ""]
BadLine == [TextLine EXCEPT !.utf8 = FALSE]
CargoLines ==
    {DiagError, DiagWarning, DiagLibs, OtherRecord, TextLine, BadLine}

\* CargoMessage::from_str
CargoMessage_from_str(line) ==
    IF ~line.object THEN Err([kind |-> "", package |-> "", text |-> ""])
    ELSE IF line.reason = "compiler-message"
    THEN IF ~line.rendered.some \/ ~line.message.some \/ ~line.name.some
         THEN Err([kind |-> "", package |-> "", text |-> ""])
         ELSE IF HasPrefix(line.message.val, "native-static-libs: ")
         THEN Ok([kind |-> "NativeStaticLibs", package |-> line.name.val,
                  text |-> strip_prefix_or(line.message.val,
                                           "native-static-libs: ")])
         ELSE Ok([kind |-> "CompilerMessage", package |-> "",
                  text |-> line.rendered.val])
    ELSE Ok([kind |-> "Other", package |-> "", text |-> ""])

\* the lines read_to_end gives to the standard output callback, and whether
\* it ends with the error of read_line
RECURSIVE ReceivedLines(_)
ReceivedLines(lines) ==
    IF lines = <<>> \/ ~Head(lines).utf8 THEN <<>>
    ELSE <<Head(lines)>> \o ReceivedLines(Tail(lines))

\* compiler_messages after the standard output callback has seen the lines
RECURSIVE compiler_messages(_)
compiler_messages(lines) ==
    IF lines = <<>> THEN <<>>
    ELSE LET m == CargoMessage_from_str(Head(lines))
         IN  (IF m.ok /\ m.val.kind = "CompilerMessage"
              THEN <<m.val.text>> ELSE <<>>)
                \o compiler_messages(Tail(lines))

\* native_static_libs after the standard output callback has seen the
\* lines: package -> libs, a later insert replacing an earlier one
RECURSIVE native_static_libs(_, _)
native_static_libs(lines, map) ==
    IF lines = <<>> THEN map
    ELSE LET m == CargoMessage_from_str(Head(lines))
         IN  native_static_libs(Tail(lines),
                IF m.ok /\ m.val.kind = "NativeStaticLibs"
                THEN [p \in DOMAIN map \cup {m.val.package} |->
                        IF p = m.val.package THEN m.val.text ELSE map[p]]
                ELSE map)

\* the Command that cargo_build builds, as it is printed
RECURSIVE PackageArgs(_)
PackageArgs(packages) ==
    IF packages = <<>> THEN <<>>
    ELSE <<CompArg("-p"), CompArg(Head(packages))>>
            \o PackageArgs(Tail(packages))
cargo_command(build) ==
    <<CompEnv("CARGO_TERM_PROGRESS_WHEN", "never"), CompCmd("cargo"),
      CompArg("rustc"), CompArg("--lib"),
      CompArg("--message-format=json-diagnostic-rendered-ansi"),
      CompArg("--target-dir"), CompArg(build.target_dir),
      CompArg("--profile"), CompArg(build.profile),
      CompArg("--target"), CompArg(TripleToString(build.target))>>
        \o PackageArgs(build.packages)
        \o (IF build.crate_type = "Cdylib"
            THEN <<CompArg("--crate-type=cdylib")>>
            ELSE <<CompArg("--crate-type=staticlib"), CompArg("--"),
                   CompArg("--print=native-static-libs")>>)

\* Command::run_stdout_stderr as a whole, for a subprocess whose standard
\* output is a list of CargoLines: the error of the reader of standard
\* output comes first, then that of the reader of standard error, then the
\* exit status
run_stdout_stderr(program, child) ==
    IF ~child.spawn_ok THEN Err(format_error(program, SpawnError, None))
    ELSE IF \E i \in 1..Len(child.stdout) : ~child.stdout[i].utf8
    THEN Err(Error_new("stream did not contain valid UTF-8"))
    ELSE IF ~read_to_end(child.stderr, <<>>).result.ok
    THEN read_to_end(child.stderr, <<>>).result
    ELSE IF ~success(child)
    THEN Err(format_error(program, "program exited with non-zero exit code",
                          Some(child.code)))
    ELSE Ok("")

\* the artifacts cargo_build returns after a successful run
RECURSIVE cargo_artifacts(_, _, _, _)
cargo_artifacts(build, k, libs, acc) ==
    IF k > Len(build.packages) THEN Ok(acc)
    ELSE LET package == build.packages[k]
             key == cargo_normalize_package_name(package)
             path == cargo_output_path(build.target_dir, build.profile,
                        build.target, package, build.crate_type)
         IN  IF ~path.ok THEN Err(Error_new(path.val))
             ELSE cargo_artifacts(build, k + 1,
                    [p \in DOMAIN libs \ {key} |-> libs[p]],
                    Append(acc,
                        [package |-> package, path |-> path.val,
                         native_static_libs |->
                            IF key \in DOMAIN libs THEN Some(libs[key])
                            ELSE None]))

GENERIC_MESSAGE ==
    "compilation error. check the cargo output in --verbose mode for more info"

\* cargo_build with the subprocess it runs
cargo_build_run(build, child) ==
    LET received == ReceivedLines(child.stdout)
        run == run_stdout_stderr(format_program(cargo_command(build)), child)
    IN  IF ~run.ok
        THEN Err(with_note(
                with_message(run.val,
                    IF compiler_messages(received) = <<>>
                    THEN GENERIC_MESSAGE
                    ELSE join(compiler_messages(received), "\n")),
                "compilation failure while running cargo"))
        ELSE cargo_artifacts(build, 1,
                native_static_libs(received, <<>>), <<>>)

\* no call of cargo_build
CargoIdle ==
    [pc |-> "idle", build |-> CargoBuild("Cdylib", <<>>, X86_64_LINUX_GNU),
     child |-> [spawn_ok |-> FALSE, stdout |-> <<>>, stderr |-> <<>>,
                code |-> NoCode],
     result |-> Ok(<<>>)]

\* cargo_build is called and returns
CargoBuildCall ==
    /\ cargo.pc = "called"
    /\ cargo' = [cargo EXCEPT !.pc = "returned",
                              !.result = cargo_build_run(cargo.build,
                                                         cargo.child)]
    /\ UNCHANGED <<cache_vars, build_vars, fmtlibs, command, pipe, reporter,
                   error, fncall, post>>

\* a function without side effects is called with these arguments
FnCalled(fn, args) ==
    [pc |-> "called", fn |-> fn, args |-> args, result |-> Ok("")]
FnReturn(result) ==
    /\ fncall' = [fncall EXCEPT !.pc = "returned", !.result = result]
    /\ UNCHANGED <<cache_vars, build_vars, fmtlibs, command, pipe, reporter,
                   error, cargo, post>>

(***************************************************************************)
(* mod.rs: BuildTarget's FromStr, with target_lexicon's Triple::from_str   *)
(* for the architectures, vendors, systems and environments listed here.   *)
(***************************************************************************)
\* str::split('-')
RECURSIVE SplitDash(_, _, _, _)
SplitDash(str, i, cur, acc) ==
    IF i > Len(str) THEN Append(acc, cur)
    ELSE IF SubSeq(str, i, i) = "-"
    THEN SplitDash(str, i + 1, "", Append(acc, cur))
    ELSE SplitDash(str, i + 1, cur \o SubSeq(str, i, i), acc)

Architectures == {"x86_64", "aarch64"}
Vendors == {"unknown", "apple", "pc"}
OperatingSystems == {"linux", "darwin", "windows", "freebsd"}
Environments == {"gnu", "musl", "msvc"}

\* Triple::from_str: the architecture, then a vendor if the next part names
\* one, then an operating system if the next part names one, then an
\* environment if the next part names one; a part left over is an error
Triple_from_str(str) ==
    LET parts == SplitDash(str, 1, "", <<>>)
        n == Len(parts)
        v == IF n >= 2 /\ parts[2] \in Vendors THEN 1 ELSE 0
        o == IF n >= 2 + v /\ parts[2 + v] \in OperatingSystems THEN 1 ELSE 0
        e == IF n >= 2 + v + o /\ parts[2 + v + o] \in Environments
             THEN 1 ELSE 0
    IN  IF parts[1] \notin Architectures \/ n # 1 + v + o + e
        THEN Err(X86_64_LINUX_GNU)
        ELSE Ok(MkTriple(parts[1],
                    IF v = 1 THEN parts[2] ELSE "unknown",
                    IF o = 1 THEN parts[2 + v] ELSE "unknown",
                    IF e = 1 THEN parts[2 + v + o] ELSE "unknown"))

\* u8::to_ascii_lowercase, for the letters of universal-apple-darwin
Lower(c) ==
    CASE c = "A" -> "a" [] c = "D" -> "d" [] c = "E" -> "e" [] c = "I" -> "i"
      [] c = "L" -> "l" [] c = "N" -> "n" [] c = "P" -> "p" [] c = "R" -> "r"
      [] c = "S" -> "s" [] c = "U" -> "u" [] c = "V" -> "v" [] c = "W" -> "w"
      [] OTHER -> c

\* str::eq_ignore_ascii_case
eq_ignore_ascii_case(a, c) ==
    /\ Len(a) = Len(c)
    /\ \A i \in 1..Len(a) : Lower(SubSeq(a, i, i)) = Lower(SubSeq(c, i, i))

\* str::find: the position of the first occurrence counted from 1, and 0
\* when there is none
str_find(str, pat) ==
    LET at == {i \in 1..(Len(str) - Len(pat) + 1) :
                    SubSeq(str, i, i + Len(pat) - 1) = pat}
    IN  IF at = {} THEN 0
        ELSE CHOOSE i \in at : \A j \in at : i <= j

\* BuildTarget::from_str
BuildTarget_from_str(str) ==
    IF eq_ignore_ascii_case(str, "universal-apple-darwin")
    THEN Ok(AppleUniversal)
    ELSE LET at == str_find(str, "gnu.")
         IN  IF at # 0
             THEN LET t == Triple_from_str(SubSeq(str, 1, at + 2))
                  IN  IF t.ok
                      THEN Ok(TripleGlibc(t.val,
                                SubSeq(str, at + 4, Len(str))))
                      ELSE Err(Triple(t.val))
             ELSE LET t == Triple_from_str(str)
                  IN  IF t.ok THEN Ok(Triple(t.val)) ELSE Err(Triple(t.val))

\* a target string is parsed, the result is rendered and parsed again
ParseRenderParse ==
    /\ fncall.pc = "called"
    /\ fncall.fn = "BuildTarget::from_str"
    /\ LET first == BuildTarget_from_str(fncall.args)
       IN  FnReturn(
            [first |-> first,
             rendered |-> IF first.ok THEN TargetToString(first.val) ELSE "",
             second |-> IF first.ok
                        THEN BuildTarget_from_str(TargetToString(first.val))
                        ELSE first])

\* cargo_output_path is called and returns
CargoOutputPath ==
    /\ fncall.pc = "called"
    /\ fncall.fn = "cargo_output_path"
    /\ FnReturn(cargo_output_path(fncall.args.target_dir,
            fncall.args.profile, fncall.args.triple, fncall.args.package,
            fncall.args.crate_type))

\* no function is called, no stage runs
FnIdle == [pc |-> "idle", fn |-> "", args |-> <<>>, result |-> Ok("")]
PostIdle == [pc |-> "idle"]
NoMore ==
    /\ error = ErrorIdle
    /\ cargo = CargoIdle
    /\ fncall = FnIdle
    /\ post = PostIdle

\* nothing of the command-line helpers is running
NoCli ==
    /\ fmtlibs = FmtIdle
    /\ command = CommandIdle
    /\ pipe = PipeIdle
    /\ reporter = ReporterIdle
    /\ NoMore

(***************************************************************************)
(* The hosts and the build requests of SpecBuild                           *)
(***************************************************************************)
Hosts == {X86_64_LINUX_GNU, AARCH64_APPLE_DARWIN}

BuildTargets ==
    { Triple(X86_64_LINUX_GNU), Triple(X86_64_LINUX_MUSL),
      Triple(AARCH64_APPLE_DARWIN), Triple(X86_64_FREEBSD),
      TripleGlibc(X86_64_LINUX_GNU, "2.17"), AppleUniversal }

Packages == {"demo", "my-plug"}

SeqsUpTo(S, n) == UNION {[1..k -> S] : k \in 1..n}

BuildRequests ==
    [targets : SeqsUpTo(BuildTargets, MaxTargets),
     packages : SeqsUpTo(Packages, MaxPackages),
     clap : BOOLEAN, auv2 : BOOLEAN,
     vst3 : {"None", "OpenSource", "Proprietary", "Local"}]

(***************************************************************************)
(* SpecLoad: one caller on a clean root calls load again and again; any    *)
(* call may be killed and any file operation or fetch command may fail.    *)
(***************************************************************************)
CleanRoot == [n \in Paths |-> NoDir]

\* no build is running
NoBuild ==
    /\ host = X86_64_LINUX_GNU
    /\ req = [targets |-> <<>>, packages |-> <<>>, clap |-> FALSE,
              auv2 |-> FALSE, vst3 |-> "None"]
    /\ b = BuildIdle
    /\ thr = ThreadsIdle
    /\ trace = <<>>

InitLoad ==
    /\ fs = CleanRoot
    /\ proc = [p \in {1} |-> IdleProc]
    /\ calls = 0
    /\ flaky = TRUE
    /\ NoBuild
    /\ NoCli

NextLoad ==
    \/ \E p \in DOMAIN proc : Call(p)
    \/ \E p \in DOMAIN proc : load(p)
    \/ \E p \in DOMAIN proc : Kill(p)

SpecLoad == InitLoad /\ [][NextLoad]_vars

Spec == SpecLoad

(***************************************************************************)
(* SpecHit: one call of load on a root that holds, for one dependency,     *)
(* a finalized directory and a tmp directory in any condition (the cache   *)
(* outlives the process and its directories can be changed from outside).  *)
(***************************************************************************)
AnyDir(item) ==
    { NoDir, EmptyDir, Dir({<<"partial", 0>>}),
      Dir({<<n, 0>> : n \in FullContent(item)}) }

InitHit ==
    /\ \E item \in Dependency :
       \E final \in AnyDir(item), tmp \in AnyDir(item) :
            fs = [CleanRoot EXCEPT ![folder_path(item)] = final,
                                   ![tmp_folder(item)] = tmp]
    /\ proc = [p \in {1} |-> IdleProc]
    /\ calls = MaxCalls - 1
    /\ flaky = TRUE
    /\ NoBuild
    /\ NoCli

SpecHit == InitHit /\ [][NextLoad]_vars

(***************************************************************************)
(* SpecRace: two callers (two processes on one cache root) have called     *)
(* load for the same dependency, which is not in the cache; their          *)
(* statements interleave in any order.  Nothing fails by itself and        *)
(* nothing is killed: a statement fails only for what the other caller     *)
(* did to the root.                                                        *)
(***************************************************************************)
InitRace ==
    /\ \E item \in Dependency :
       \E tmp \in {NoDir, Dir({<<"partial", 0>>})} :
         /\ fs = [CleanRoot EXCEPT ![tmp_folder(item)] = tmp]
         /\ proc = [p \in {1, 2} |->
                [pc |-> "folder_exists", item |-> item, step |-> 1,
                 gen |-> p, ret |-> "", fault |-> FALSE, pre |-> fs]]
    /\ calls = 2
    /\ flaky = FALSE
    /\ NoBuild
    /\ NoCli

NextRace == \E p \in DOMAIN proc : load(p)

SpecRace == InitRace /\ [][NextRace]_vars

(***************************************************************************)
(* SpecBuild: one call of build, for every request within the bounds and   *)
(* every host; every external command may exit with status 0 or fail.     *)
(***************************************************************************)
InitBuild ==
    /\ fs = CleanRoot
    /\ proc = [p \in {1} |-> IdleProc]
    /\ calls = 0
    /\ flaky = TRUE
    /\ host \in Hosts
    /\ req \in BuildRequests
    /\ b = [BuildIdle EXCEPT !.pc = "start"]
    /\ thr = ThreadsIdle
    /\ trace = <<>>
    /\ NoCli

load_dependencies ==
    \/ ld_spawn_vst3
    \/ ld_spawn_pico
    \/ vst3_task
    \/ pico_workspace_dir
    \/ pico_metadata
    \/ pico_load
    \/ ld_join_vst3
    \/ ld_join_pico
    \/ ld_scope_exit

build_libraries ==
    \/ bl_triple
    \/ bl_triple_glibc
    \/ bl_universal_aarch64
    \/ bl_universal_x86_64
    \/ bl_universal_lipo

NextBuild ==
    \/ build_start
    \/ ensure_zig_installed
    \/ ensure_cmake_installed
    \/ load_dependencies
    \/ build_libraries
    \/ build_after_libraries
    \/ build_wrapper_configure
    \/ build_wrapper_build
    \/ build_return

SpecBuild == InitBuild /\ [][NextBuild]_vars

(***************************************************************************)
(* SpecFormat: one call of format_native_static_libs, for every list of    *)
(* tokens within the bounds, separated and surrounded by whitespace in     *)
(* several ways, and for the input of cmake.rs's own test.                 *)
(***************************************************************************)
Tokens == {"-framework", "CoreFoundation", "-lc", "m", "foo.lib", "-lbar.lib"}

TestTokens ==
    <<"-lobjc", "-framework", "CoreFoundation", "-liconv", "-lSystem",
      "-lc", "-lm">>

TokenLists ==
    {<<>>} \cup SeqsUpTo(Tokens, MaxTokens) \cup {TestTokens}

\* nothing of the cache is running
NoCache ==
    /\ fs = CleanRoot
    /\ proc = [p \in {1} |-> IdleProc]
    /\ calls = 0
    /\ flaky = FALSE

InitFormat ==
    /\ NoCache
    /\ NoBuild
    /\ \E tokens \in TokenLists, sep \in {" ", "  ", "\t", " \n"},
          around \in {"", " "} :
        fmtlibs = [pc |-> "called", tokens |-> tokens,
                   input |-> around \o join(tokens, sep) \o around,
                   output |-> ""]
    /\ command = CommandIdle
    /\ pipe = PipeIdle
    /\ reporter = ReporterIdle
    /\ NoMore

NextFormat == FormatNativeStaticLibs

SpecFormat == InitFormat /\ [][NextFormat]_vars

(***************************************************************************)
(* SpecCommand: one Command is built with any calls of arg, arg_secret,   *)
(* cwd and env within the bound, and run in Collect mode (run) or in      *)
(* Streamed-stdout mode (run_stdout) with any subprocess.                 *)
(***************************************************************************)
InitCommand ==
    /\ NoCache
    /\ NoBuild
    /\ fmtlibs = FmtIdle
    /\ command = Command_new("git")
    /\ pipe = PipeIdle
    /\ reporter = ReporterIdle
    /\ NoMore

NextCommand ==
    \/ Command_arg
    \/ Command_arg_secret
    \/ Command_cwd
    \/ Command_env
    \/ Command_run
    \/ Command_run_stdout

SpecCommand == InitCommand /\ [][NextCommand]_vars

(***************************************************************************)
(* SpecStream: one Command is run in streamed-both mode                    *)
(* (run_stdout_stderr) with any subprocess, under every interleaving of    *)
(* the two reader threads and the receiving thread.                        *)
(***************************************************************************)
NextStream ==
    \/ Command_run_stdout_stderr
    \/ read_to_end_left
    \/ read_to_end_right
    \/ Recv
    \/ read_double_pipe_join

SpecStream == InitCommand /\ [][NextStream]_vars

(***************************************************************************)
(* SpecSpans: several threads begin spans and leave their scopes, normally *)
(* or by error propagation, in any interleaving.                           *)
(***************************************************************************)
InitSpans ==
    /\ NoCache
    /\ NoBuild
    /\ fmtlibs = FmtIdle
    /\ command = CommandIdle
    /\ pipe = PipeIdle
    /\ \E log_mode \in BOOLEAN :
        reporter = [ReporterIdle EXCEPT !.log_mode = log_mode]
    /\ NoMore

begin_span == \E t \in Threads : request_span(t)
release == \E t \in Threads : ScopeExit(t)
release_by_error == \E t \in Threads : ErrorExit(t)
error_handled == \E t \in Threads : ErrorHandled(t)

NextSpans ==
    \/ begin_span
    \/ release
    \/ release_by_error
    \/ error_handled

SpecSpans == InitSpans /\ [][NextSpans]_vars

(***************************************************************************)
(* SpecMessage: several threads begin spans, report messages and leave     *)
(* their scopes in any interleaving, in log mode or with the status bar.   *)
(***************************************************************************)
message_reported == \E t \in Threads, message \in Messages : report_message(t, message)

NextMessage ==
    \/ begin_span
    \/ release
    \/ message_reported

SpecMessage == InitSpans /\ [][NextMessage]_vars

(***************************************************************************)
(* SpecError: while threads begin and release spans, one of them           *)
(* constructs an Error, and notes and messages are given to it.            *)
(***************************************************************************)
InitError ==
    /\ NoCache
    /\ NoBuild
    /\ NoCli

Error_new_any == \E t \in Threads : Error_new_by(t)

NextError ==
    \/ begin_span
    \/ release
    \/ Error_new_any
    \/ Error_with_note
    \/ Error_with_message

SpecError == InitError /\ [][NextError]_vars

(***************************************************************************)
(* SpecCargo: cargo_build is called for one package and the compiler       *)
(* writes any lines within the bound and ends in any way.                  *)
(***************************************************************************)
CargoChildren ==
    [spawn_ok : BOOLEAN,
     stdout : SeqsUpTo(CargoLines, MaxLines) \cup {<<>>},
     stderr : {<<>>, <<"warn\n">>, <<"bad#\n">>},
     code : {Some(0), Some(1), NoCode}]

InitCargo ==
    /\ NoCache
    /\ NoBuild
    /\ fmtlibs = FmtIdle
    /\ command = CommandIdle
    /\ pipe = PipeIdle
    /\ reporter = ReporterIdle
    /\ error = ErrorIdle
    /\ fncall = FnIdle
    /\ post = PostIdle
    /\ \E crate_type \in {"Cdylib", "Staticlib"}, child \in CargoChildren :
        cargo = [pc |-> "called",
                 build |-> CargoBuild(crate_type, <<"my-plug">>,
                                      X86_64_LINUX_GNU),
                 child |-> child,
                 result |-> Ok(<<>>)]

NextCargo == CargoBuildCall

SpecCargo == InitCargo /\ [][NextCargo]_vars

(***************************************************************************)
(* SpecPath: cargo_output_path is called with any target directory,       *)
(* profile, triple, package and crate type of these sets.                  *)
(***************************************************************************)
NoCliButFn ==
    /\ fmtlibs = FmtIdle
    /\ command = CommandIdle
    /\ pipe = PipeIdle
    /\ reporter = ReporterIdle
    /\ error = ErrorIdle
    /\ cargo = CargoIdle
    /\ post = PostIdle

PathTriples ==
    {X86_64_LINUX_GNU, X86_64_LINUX_MUSL, AARCH64_APPLE_DARWIN,
     MkTriple("aarch64", "apple", "macosx", "unknown"),
     MkTriple("x86_64", "pc", "windows", "msvc"),
     MkTriple("x86_64", "pc", "windows", "gnu"),
     X86_64_FREEBSD}

InitPath ==
    /\ NoCache
    /\ NoBuild
    /\ NoCliButFn
    /\ \E target_dir \in {"target", "/tmp/out"},
          profile \in {"release", "bench", "dev", "test", "fast"},
          triple \in PathTriples,
          package \in {"demo", "my-plug", "a-b-c"},
          crate_type \in {"Cdylib", "Staticlib"} :
        fncall = FnCalled("cargo_output_path",
                    [target_dir |-> target_dir, profile |-> profile,
                     triple |-> triple, package |-> package,
                     crate_type |-> crate_type])

NextPath == CargoOutputPath

SpecPath == InitPath /\ [][NextPath]_vars

(***************************************************************************)
(* SpecTarget: a target string is parsed, rendered and parsed again.       *)
(***************************************************************************)
TripleStrings ==
    {arch \o rest :
        arch \in Architectures \cup {"riscv"},
        rest \in {"-unknown-linux-gnu", "-linux-gnu", "-unknown-linux-musl",
                  "-apple-darwin", "-pc-windows-msvc", "-pc-windows-gnu",
                  "-unknown-freebsd", "-unknown-linux-gnu-extra"}}

TargetStrings ==
    {t \o suffix : t \in TripleStrings,
                   suffix \in {"", ".2.17", ".2.28", ".", ".gnu.1"}}
    \cup {"universal-apple-darwin", "Universal-Apple-Darwin",
          "UNIVERSAL-APPLE-DARWIN", "universal-apple-darwiN",
          "universal-apple-darwin.2.17", "universal", "gnu.", ""}

InitTarget ==
    /\ NoCache
    /\ NoBuild
    /\ NoCliButFn
    /\ \E str \in TargetStrings :
        fncall = FnCalled("BuildTarget::from_str", str)

NextParse == ParseRenderParse

SpecTarget == InitTarget /\ [][NextParse]_vars

(***************************************************************************)
(* SpecZig: the loop of build_libraries over one or two targets that are   *)
(* plain triples or triples with a libc version, of any operating system   *)
(* and environment of these sets.                                          *)
(***************************************************************************)
ZigTriples ==
    {X86_64_LINUX_GNU, X86_64_LINUX_MUSL, AARCH64_APPLE_DARWIN,
     MkTriple("x86_64", "pc", "windows", "msvc"),
     MkTriple("x86_64", "pc", "windows", "gnu"),
     MkTriple("aarch64", "unknown", "linux", "android"),
     X86_64_FREEBSD,
     MkTriple("x86_64", "unknown", "freebsd", "gnu")}

ZigTargets ==
    {Triple(t) : t \in ZigTriples}
    \cup {TripleGlibc(t, v) :
            t \in {t \in ZigTriples : t.environment = "gnu"},
            v \in {"2.17", "2.28"}}

InitZig ==
    /\ fs = CleanRoot
    /\ proc = [p \in {1} |-> IdleProc]
    /\ calls = 0
    /\ flaky = FALSE
    /\ host \in Hosts
    /\ \E targets \in SeqsUpTo(ZigTargets, MaxTargets) :
        req = [targets |-> targets, packages |-> <<"my-plug">>,
               clap |-> TRUE, auv2 |-> FALSE, vst3 |-> "None"]
    /\ \E crate_type \in {"Cdylib", "Staticlib"} :
        b = [BuildIdle EXCEPT !.pc = "target", !.crate_type = crate_type]
    /\ thr = ThreadsIdle
    /\ trace = <<>>
    /\ NoCli

NextZig ==
    \/ bl_triple
    \/ bl_triple_glibc

SpecZig == InitZig /\ [][NextZig]_vars

(***************************************************************************)
(* Claims about the dependency cache                                       *)
(***************************************************************************)
IsTmpName(n) == Len(n) >= 4 /\ SubSeq(n, 1, 4) = "tmp-"

FinalAbsentOrComplete ==
    \A d \in Dependency :
        fs[folder_path(d)].exists => Complete(d, fs[folder_path(d)])

\* a step that makes a finalized directory appear is the rename of a
\* completely populated tmp directory by a caller at line 66
CreatedByRename ==
    \A d \in Dependency :
        (~fs[folder_path(d)].exists /\ fs'[folder_path(d)].exists) =>
            /\ Complete(d, fs[tmp_folder(d)])
            /\ fs'[folder_path(d)] = fs[tmp_folder(d)]
            /\ ~fs'[tmp_folder(d)].exists
            /\ \E p \in DOMAIN proc :
                /\ proc[p].pc = "rename" /\ proc[p].item = d
                /\ proc'[p].pc = "ok"

\* C1: with a single caller, whose calls of load may be killed at any step
\* and whose file operations and fetch commands may fail, the finalized
\* directory of every dependency is absent or completely populated in every
\* reachable state, and it only ever appears by the rename of a completely
\* populated tmp directory.
C1_CrashSafe == []FinalAbsentOrComplete /\ [][CreatedByRename]_vars

\* a call was killed or failed while populating: its tmp directory is left
\* partially populated and there is no finalized directory
C1_Witness ==
    \E p \in DOMAIN proc :
        /\ proc[p].pc \in {"killed", "err"}
        /\ fs[tmp_folder(proc[p].item)].exists
        /\ fs[tmp_folder(proc[p].item)].entries # {}
        /\ ~Complete(proc[p].item, fs[tmp_folder(proc[p].item)])
        /\ ~fs[folder_path(proc[p].item)].exists

\* C2: when two concurrent calls of load for the same missing dependency
\* have both returned, at least one returned success, the finalized
\* directory exists and is completely populated, and no tmp- directory
\* remains.
C2_BothReturned ==
    (\A p \in DOMAIN proc : Returned(p)) =>
        /\ \E p \in DOMAIN proc : proc[p].pc = "ok"
        /\ \A p \in DOMAIN proc :
                Populated(proc[p].item, fs[folder_path(proc[p].item)])
        /\ \A n \in Paths : fs[n].exists => ~IsTmpName(n)

\* C3: a successful load on a root that was clean before the call leaves the
\* finalized directory of the dependency and no tmp- directory, and returns
\* the path of the finalized directory.
C3_NoTmpAfterSuccess ==
    \A p \in DOMAIN proc :
        (proc[p].pc = "ok" /\ proc[p].pre = CleanRoot) =>
            /\ fs[folder_path(proc[p].item)].exists
            /\ \A n \in Paths : fs[n].exists => ~IsTmpName(n)
            /\ proc[p].ret = folder_path(proc[p].item)
            /\ ~IsTmpName(proc[p].ret)

C3_Witness ==
    \E p \in DOMAIN proc :
        /\ proc[p].pc = "ok" /\ proc[p].pre = CleanRoot
        /\ Complete(proc[p].item, fs[proc[p].ret])

StaleTmp(p) ==
    /\ proc[p].pre[tmp_folder(proc[p].item)].exists
    /\ ~proc[p].pre[folder_path(proc[p].item)].exists

\* C4: a load that finds a stale tmp directory and no finalized directory
\* populates an empty tmp directory (nothing of the stale one is in it at
\* any step), and when none of its steps fails by itself it returns success
\* with a complete finalized directory written by this call alone, and no
\* tmp directory.
C4_StaleTmpRecovered ==
    \A p \in DOMAIN proc :
        StaleTmp(p) =>
            /\ (proc[p].pc = "load_item" /\ proc[p].step = 1) =>
                    fs[tmp_folder(proc[p].item)] = EmptyDir
            /\ proc[p].pc \in {"load_item", "rename"} =>
                    GensOf(fs[tmp_folder(proc[p].item)]) \subseteq {proc[p].gen}
            /\ (Returned(p) /\ ~proc[p].fault) =>
                    /\ proc[p].pc = "ok"
                    /\ Complete(proc[p].item, fs[folder_path(proc[p].item)])
                    /\ GensOf(fs[folder_path(proc[p].item)]) = {proc[p].gen}
                    /\ ~fs[tmp_folder(proc[p].item)].exists

C4_Witness ==
    \E p \in DOMAIN proc :
        /\ StaleTmp(p)
        /\ proc[p].pre[tmp_folder(proc[p].item)].entries # {}
        /\ proc[p].pc = "ok"

\* C5: a load that finds the finalized directory returns its path and runs
\* no other statement of load: in every state of such a call the whole root
\* is as the call found it, whatever the finalized directory holds.
C5_HitLeavesRootUnchanged ==
    \A p \in DOMAIN proc :
        proc[p].pre[folder_path(proc[p].item)].exists =>
            /\ proc[p].pc \in {"folder_exists", "ok", "killed"}
            /\ fs = proc[p].pre
            /\ proc[p].pc = "ok" => proc[p].ret = folder_path(proc[p].item)

\* a hit on a finalized directory that is not complete, beside a tmp directory
C5_Witness ==
    \E p \in DOMAIN proc :
        /\ proc[p].pc = "ok"
        /\ proc[p].pre[folder_path(proc[p].item)].exists
        /\ ~Complete(proc[p].item, fs[folder_path(proc[p].item)])
        /\ fs[tmp_folder(proc[p].item)].exists

(***************************************************************************)
(* Claims about the orchestrator                                           *)
(***************************************************************************)
CompilerOps == {"cargo rustc", "lipo"}
WrapperOps == {"cmake configure", "cmake --build"}

\* an external command has failed, on the thread of build or on a thread of
\* load_dependencies
FailedInBuild == \E i \in 1..Len(trace) : ~trace[i].ok
FailedInTask(t) == \E i \in 1..Len(thr[t].log) : ~thr[t].log[i].ok
Failed == FailedInBuild \/ \E t \in DOMAIN thr : FailedInTask(t)

\* the command that this step appends to the trace, if it appends one
Started(op) ==
    /\ Len(trace') = Len(trace) + 1
    /\ trace'[Len(trace')].op = op

ErrorReturned ==
    /\ Failed /\ b.result.returned => ~b.result.ok
    \* a failure on the thread of build returns the error at once
    /\ FailedInBuild => b.pc = "done" /\ ~b.result.ok
    \* after a failure in a task, build is in load_dependencies or done
    /\ Failed => b.pc \in {"spawn_pico", "join_vst3", "join_pico",
                          "scope_exit", "done"}

NothingStartedAfterFailure ==
    Failed => \A op \in CompilerOps \cup WrapperOps : ~Started(op)

\* C6: once a tool check, a compiler, lipo, a dependency fetch or a wrapper
\* subprocess has failed, build returns an error, never a list of
\* artifacts, and starts no compiler, lipo or wrapper command any more.
C6_FailureAborts == []ErrorReturned /\ [][NothingStartedAfterFailure]_vars

\* a wrapper build failed after the wrapper of an earlier artifact was
\* built, and build has returned
C6_Witness ==
    /\ b.result.returned
    /\ \E i, j \in 1..Len(trace) :
        /\ i < j
        /\ trace[i].op = "cmake --build" /\ trace[i].ok
        /\ trace[j].op = "cmake --build" /\ ~trace[j].ok

\* the step of the orchestrator's algorithm that a command of the trace
\* belongs to, as the code orders the steps: tool checks, dependency
\* resolution, compilation and universal assembly, wrapper builds
PhaseInCode(op) ==
    CASE op \in {"zig version", "cmake --version"} -> 1
      [] op = "load_dependencies" -> 2
      [] op \in CompilerOps -> 3
      [] op \in WrapperOps -> 4

\* the same, as section 4.8 lists the steps: compilation (step 5) before
\* dependency resolution (step 7)
PhaseAsListed(op) ==
    CASE op \in {"zig version", "cmake --version"} -> 4
      [] op \in CompilerOps -> 5
      [] op = "load_dependencies" -> 7
      [] op \in WrapperOps -> 8

\* both tasks of load_dependencies have finished
TasksFinished == \A t \in DOMAIN thr : thr[t].pc = "finished"

\* load_dependencies has returned
DependenciesResolved ==
    \E i \in 1..Len(trace) : trace[i].op = "load_dependencies"

\* C7 as stated: in a wrapper-mediated build every compiler invocation and
\* universal assembly has completed before dependency resolution starts,
\* and dependency resolution has completed before the first wrapper build.
C7_ListedOrder ==
    b.use_cmake =>
        /\ \A i, j \in 1..Len(trace) :
            i < j => PhaseAsListed(trace[i].op) <= PhaseAsListed(trace[j].op)
        /\ \A j \in 1..Len(trace) :
            trace[j].op \in WrapperOps => DependenciesResolved /\ TasksFinished

\* C7 amended: in a wrapper-mediated build dependency resolution has
\* completed (both tasks finished, load_dependencies returned without
\* error) before the first compiler invocation starts, and every compiler
\* invocation and universal assembly has completed before the first wrapper
\* build starts.
C7_CodeOrder ==
    b.use_cmake =>
        /\ \A i, j \in 1..Len(trace) :
            i < j => PhaseInCode(trace[i].op) <= PhaseInCode(trace[j].op)
        /\ \A j \in 1..Len(trace) :
            trace[j].op \in CompilerOps \cup WrapperOps =>
                /\ TasksFinished
                /\ \E i \in 1..(j - 1) :
                    trace[i].op = "load_dependencies" /\ trace[i].ok

\* a wrapper-mediated build of a universal target has fetched both
\* dependencies, compiled, run lipo and built a wrapper
C7_Witness ==
    /\ b.use_cmake
    /\ \A t \in DOMAIN thr :
        \E i \in 1..Len(thr[t].log) : thr[t].log[i].op = "fetch"
    /\ \E i, j, k \in 1..Len(trace) :
        /\ i < j /\ j < k
        /\ trace[i].op = "cargo rustc"
        /\ trace[j].op = "lipo"
        /\ trace[k].op = "cmake --build"

\* a task of load_dependencies that was spawned and has not finished
Active(t) == thr[t].pc \notin {"unspawned", "finished"}

\* the next statement of task t
TaskStep(t) ==
    IF t = "vst3" THEN vst3_task
    ELSE pico_workspace_dir \/ pico_metadata \/ pico_load

\* what load_dependencies returns, given the results of its two tasks
JoinedError ==
    IF ~thr["vst3"].result.ok THEN Some(thr["vst3"].result.val)
    ELSE IF ~thr["pico"].result.ok THEN Some(thr["pico"].result.val)
    ELSE None

\* C8: load_dependencies runs its two tasks concurrently and returns only
\* when both have finished; a task is never cancelled, whatever the other
\* did: it can always take its next step; the error returned is that of
\* the VST3 task if it failed, else that of the wrapper-resolution task;
\* no wrapper build starts unless both tasks finished without error.
C8_BothTasksJoined ==
    /\ DependenciesResolved => TasksFinished
    /\ \A t \in DOMAIN thr : Active(t) => ENABLED TaskStep(t)
    /\ DependenciesResolved =>
        LET r == trace[CHOOSE i \in 1..Len(trace) :
                            trace[i].op = "load_dependencies"]
        IN  /\ r.ok <=> ~JoinedError.some
            /\ ~r.ok => /\ b.result.returned /\ ~b.result.ok
                        /\ b.result.val = JoinedError.val
    /\ \A j \in 1..Len(trace) :
        trace[j].op \in WrapperOps =>
            \A t \in DOMAIN thr : thr[t].pc = "finished" /\ thr[t].result.ok

\* both tasks failed, with different errors, the wrapper-resolution task
\* in the last of its three commands, and build returned the VST3 task's
\* error
C8_Witness ==
    /\ b.result.returned
    /\ ~thr["vst3"].result.ok /\ ~thr["pico"].result.ok
    /\ thr["vst3"].result.val # thr["pico"].result.val
    /\ b.result.val = thr["vst3"].result.val
    /\ Len(thr["pico"].log) = 3

\* both tasks are running at the same time
C8_WitnessConcurrent == Active("vst3") /\ Active("pico")

\* needs-cross as section 4.8 step 2 states it: some target is not
\* host-supported, or carries a libc version, or is the universal target on
\* a host that is not Apple's
NeedsCrossAsStated ==
    \E i \in 1..Len(req.targets) :
        LET x == req.targets[i] IN
        CASE x.kind = "Triple" -> ~is_supported(x, host)
          [] x.kind = "TripleGlibc" -> TRUE
          [] x.kind = "AppleUniversal" ->
                ~IsDarwinOrMacOSX(host.operating_system)

\* build has decided use_zig and use_cmake
Decided ==
    /\ b.pc \notin {"idle", "start"}
    /\ req.vst3 # "None" \/ req.auv2 \/ req.clap

\* C9: for every request and host, needs-cross (use_zig) is true exactly
\* when a target is not host-supported, carries a libc version or is the
\* universal target on a non-Apple host; a plain triple with the host's
\* architecture and operating system does not make it true.
C9_NeedsCross == Decided => (b.use_zig <=> NeedsCrossAsStated)

\* C10: every compiler invocation of a build uses the shared-library crate
\* type exactly when none of VST3, AUv2 and needs-cross (as section 4.8
\* states it) holds, the static-library crate type otherwise; dependency
\* resolution and the wrapper builder run in the static-library case only,
\* and a build that returns artifacts in that case has run them.
C10_CrateType ==
    LET static == req.vst3 # "None" \/ req.auv2 \/ NeedsCrossAsStated IN
    /\ \A i \in 1..Len(trace) :
        /\ trace[i].op \in CompilerOps =>
            trace[i].crate_type = IF static THEN "Staticlib" ELSE "Cdylib"
        /\ trace[i].op \in WrapperOps \cup {"load_dependencies"} => static
    /\ \A t \in DOMAIN thr : thr[t].pc # "unspawned" => static
    /\ static /\ b.result.returned /\ b.result.ok /\ b.result.val # <<>> =>
        /\ DependenciesResolved
        /\ \E i \in 1..Len(trace) : trace[i].op = "cmake --build"

\* the same with needs-cross read as the flag build computes
C10_CrateTypeOfFlag ==
    LET static == b.use_cmake IN
    Decided =>
    /\ \A i \in 1..Len(trace) :
        /\ trace[i].op \in CompilerOps =>
            trace[i].crate_type = IF static THEN "Staticlib" ELSE "Cdylib"
        /\ trace[i].op \in WrapperOps \cup {"load_dependencies"} => static
    /\ \A t \in DOMAIN thr : thr[t].pc # "unspawned" => static
    /\ static /\ b.result.returned /\ b.result.ok /\ b.result.val # <<>> =>
        /\ DependenciesResolved
        /\ \E i \in 1..Len(trace) : trace[i].op = "cmake --build"

(***************************************************************************)
(* Claims about the IntermediateArtifacts of build_libraries               *)
(***************************************************************************)
\* the IntermediateArtifacts assembled so far
ArtifactsSoFar == {b.artifacts[i] : i \in 1..Len(b.artifacts)}

\* C11: the shim triple (zig_triple) of every IntermediateArtifact is absent
\* exactly when its target is host-supported and has no libc version; it is
\* present otherwise, also for the universal target on a non-Apple host.
C11_ShimTriple ==
    \A a \in ArtifactsSoFar :
        ~a.zig_triple.some <=>
            is_supported(a.target, host) /\ a.target.kind # "TripleGlibc"

\* C12: the Apple architecture selector (osx_arch) of every
\* IntermediateArtifact is arm64 for a Darwin aarch64 target, x86_64 for a
\* Darwin x86_64 target, the literal arm64;x86_64 for the universal target,
\* and absent for every target whose operating system is not Darwin.
C12_OsxArch ==
    \A a \in ArtifactsSoFar :
        a.osx_arch =
            CASE a.target.kind = "AppleUniversal" -> Some("arm64;x86_64")
              [] a.target.kind # "AppleUniversal"
                    /\ a.target.triple.operating_system # "darwin" -> None
              [] OTHER ->
                    CASE a.target.triple.architecture = "aarch64" ->
                            Some("arm64")
                      [] a.target.triple.architecture = "x86_64" ->
                            Some("x86_64")
                      [] OTHER -> None

(***************************************************************************)
(* Claims about the universal target                                       *)
(***************************************************************************)
\* the positions in the trace of the commands run for the target at
\* position ti of the request
EventsOf(ti, op) ==
    {i \in 1..Len(trace) : trace[i].ti = ti /\ trace[i].op = op}

\* build_libraries has gone past the target at position ti
TargetDone(ti) == b.crate_type # "" /\ b.ti > ti

\* the library cargo leaves for a package and a triple
LibraryOf(package, triple) ==
    cargo_output_path("target", "release", triple, package, b.crate_type).val

\* C13: for the universal target the compiler runs for
\* aarch64-apple-darwin and then for x86_64-apple-darwin, twice in all;
\* lipo runs only after both have succeeded, once per requested package,
\* on that package's two libraries, writing under
\* <target-dir>/universal-apple-darwin/; it never runs if a compile failed.
C13_UniversalTarget ==
    \A ti \in 1..Len(req.targets) :
        req.targets[ti].kind = "AppleUniversal" =>
        LET cc == EventsOf(ti, "cargo rustc")
            ll == EventsOf(ti, "lipo")
            compiled(triple) ==
                {i \in cc : trace[i].target = TripleToString(triple)}
            requested == {req.packages[k] : k \in 1..Len(req.packages)}
        IN  /\ Cardinality(compiled(AARCH64_APPLE_DARWIN)) <= 1
            /\ Cardinality(compiled(X86_64_APPLE_DARWIN)) <= 1
            /\ cc = compiled(AARCH64_APPLE_DARWIN)
                        \cup compiled(X86_64_APPLE_DARWIN)
            /\ \A i \in compiled(X86_64_APPLE_DARWIN) :
                \E j \in compiled(AARCH64_APPLE_DARWIN) : j < i /\ trace[j].ok
            /\ \A i \in ll :
                /\ Cardinality(cc) = 2
                /\ \A j \in cc : j < i /\ trace[j].ok
                /\ trace[i].package \in requested
                /\ trace[i].inputs =
                    << LibraryOf(trace[i].package, AARCH64_APPLE_DARWIN),
                       LibraryOf(trace[i].package, X86_64_APPLE_DARWIN) >>
                /\ HasPrefix(trace[i].target, "target/universal-apple-darwin/")
                /\ \A j \in ll : trace[j].package = trace[i].package => j = i
            /\ TargetDone(ti) =>
                /\ Cardinality(cc) = 2
                /\ \A p \in requested : \E i \in ll : trace[i].package = p

\* build_libraries has finished a universal target for two packages: two
\* compiler runs and then one lipo run for each package
C13_Witness ==
    \E ti \in 1..Len(req.targets) :
        /\ req.targets[ti].kind = "AppleUniversal"
        /\ TargetDone(ti)
        /\ Cardinality(EventsOf(ti, "cargo rustc")) = 2
        /\ Cardinality(EventsOf(ti, "lipo")) = 2

(***************************************************************************)
(* Claims about the artifact list build returns                            *)
(***************************************************************************)
\* build has returned a list of artifacts
Succeeded == Decided /\ b.result.returned /\ b.result.ok

\* the package, the target and the format of the artifacts build returned
Tags(artifacts) ==
    [i \in 1..Len(artifacts) |->
        <<artifacts[i].target, artifacts[i].package, artifacts[i].format>>]

\* one CLAP artifact for every (target, package) of the request: by target
\* in request order, by package in request order within a target
ClapPerPair ==
    LET np == Len(req.packages) IN
    [i \in 1..(Len(req.targets) * np) |->
        << req.targets[((i - 1) \div np) + 1],
           req.packages[((i - 1) % np) + 1], "Clap" >>]

\* the package list names a package twice
RepeatedPackage ==
    \E i, j \in 1..Len(req.packages) :
        i # j /\ req.packages[i] = req.packages[j]

\* C14: a successful build that needs no wrapper returns exactly one CLAP
\* artifact for every (target, package) pair of the request, for any
\* package list and any target kind, by target and then by package in
\* request order, and runs neither load_dependencies nor the wrapper builder.
C14_OneClapPerPair ==
    Succeeded /\ ~b.use_cmake =>
        /\ Tags(b.result.val) = ClapPerPair
        /\ \A t \in DOMAIN thr : thr[t].pc = "unspawned"
        /\ \A i \in 1..Len(trace) :
            trace[i].op \notin WrapperOps \cup {"load_dependencies"}

\* the same for the requests that do not combine the universal target with
\* a package named twice
C14_OneClapPerPairDistinct ==
    ~(RepeatedPackage /\ \E i \in 1..Len(req.targets) :
            req.targets[i].kind = "AppleUniversal")
        => C14_OneClapPerPair

\* the (target, package) pairs of the request
Pairs ==
    {<<req.targets[i], req.packages[k]>> :
        i \in 1..Len(req.targets), k \in 1..Len(req.packages)}

\* the artifact list build returned has an entry of this format for the pair
HasEntry(pair, format) ==
    \E i \in 1..Len(b.result.val) :
        Tags(b.result.val)[i] = <<pair[1], pair[2], format>>

\* every entry of the list is tagged with a pair of the request
TaggedWithPairs ==
    \A i \in 1..Len(b.result.val) :
        /\ <<b.result.val[i].target, b.result.val[i].package>> \in Pairs
        /\ b.result.val[i].format \in {"Clap", "Vst3", "Auv2"}

\* C15 as stated: in a wrapper-mediated build, for every (target, package)
\* the artifact list has a CLAP entry always, a VST3 entry iff VST3 was
\* requested and an AUv2 entry iff the AUv2 flag was set, tagged with that
\* package and target.
C15_EntryPerFlag ==
    Succeeded /\ b.use_cmake =>
        /\ TaggedWithPairs
        /\ \A pair \in Pairs :
            /\ HasEntry(pair, "Clap")
            /\ HasEntry(pair, "Vst3") <=> req.vst3 # "None"
            /\ HasEntry(pair, "Auv2") <=> req.auv2

\* C15 amended: ... and an AUv2 entry iff the AUv2 flag was set and the
\* IntermediateArtifact of that target and package carries an Apple
\* architecture selector.
C15_EntryPerFlagAndArch ==
    Succeeded /\ b.use_cmake =>
        /\ TaggedWithPairs
        /\ \A pair \in Pairs :
            /\ HasEntry(pair, "Clap")
            /\ HasEntry(pair, "Vst3") <=> req.vst3 # "None"
            /\ HasEntry(pair, "Auv2") <=>
                /\ req.auv2
                /\ \E a \in ArtifactsSoFar :
                    /\ <<a.target, a.package>> = pair
                    /\ a.osx_arch.some

\* a wrapper-mediated build with VST3 and AUv2 requested has returned a
\* list with an AUv2 entry for one target and none for another
C15_Witness ==
    /\ Succeeded /\ b.use_cmake
    /\ req.auv2 /\ req.vst3 # "None"
    /\ \E p, q \in Pairs :
        /\ HasEntry(p, "Auv2") /\ HasEntry(p, "Vst3")
        /\ ~HasEntry(q, "Auv2") /\ HasEntry(q, "Vst3")

(***************************************************************************)
(* Claims about format_native_static_libs                                  *)
(***************************************************************************)
\* the element a token other than a `-framework` with its argument yields
Stripped(token) == strip_suffix_or(strip_prefix_or(token, "-l"), ".lib")

\* the output elements as the claim states them: `-framework X` for a
\* token -framework followed by a token X, one element for every other token
RECURSIVE ElementsAsStated(_, _)
ElementsAsStated(tokens, k) ==
    IF k > Len(tokens) THEN <<>>
    ELSE IF tokens[k] = "-framework" /\ k < Len(tokens)
    THEN <<"-framework " \o tokens[k + 1]>> \o ElementsAsStated(tokens, k + 2)
    ELSE <<Stripped(tokens[k])>> \o ElementsAsStated(tokens, k + 1)

\* the same, but a last token -framework, with no token after it, yields
\* no element
RECURSIVE ElementsOfPairs(_, _)
ElementsOfPairs(tokens, k) ==
    IF k > Len(tokens) THEN <<>>
    ELSE IF tokens[k] = "-framework"
    THEN IF k < Len(tokens)
         THEN <<"-framework " \o tokens[k + 1]>>
                \o ElementsOfPairs(tokens, k + 2)
         ELSE <<>>
    ELSE <<Stripped(tokens[k])>> \o ElementsOfPairs(tokens, k + 1)

\* C16 as stated: for every token sequence, -framework followed by X yields
\* the one element `-framework X`, every other token yields one element,
\* the token without a leading -l and a trailing .lib; the elements keep the
\* input order and are joined with `;`.
C16_LinkList ==
    fmtlibs.pc = "returned" =>
        fmtlibs.output = join(ElementsAsStated(fmtlibs.tokens, 1), ";")

\* C16 amended: ... every other token yields one element, except a last
\* token -framework with no token after it, which yields none.
C16_LinkListOfPairs ==
    fmtlibs.pc = "returned" =>
        fmtlibs.output = join(ElementsOfPairs(fmtlibs.tokens, 1), ";")

\* the input of the test of cmake.rs has given the output the test expects
C16_Witness ==
    /\ fmtlibs.pc = "returned"
    /\ fmtlibs.input =
        "-lobjc -framework CoreFoundation -liconv -lSystem -lc -lm"
    /\ fmtlibs.output = "objc;-framework CoreFoundation;iconv;System;c;m"

(***************************************************************************)
(* Claims about Command                                                    *)
(***************************************************************************)
Contains(str, sub) ==
    \E i \in 1..(Len(str) - Len(sub) + 1) :
        SubSeq(str, i, i + Len(sub) - 1) = sub

\* the text a terminal shows: the string without its styling sequences
RECURSIVE Shown(_)
Shown(str) ==
    IF Len(str) = 0 THEN ""
    ELSE IF SubSeq(str, 1, 1) = ESC
    THEN LET m == CHOOSE i \in 2..Len(str) :
                    /\ SubSeq(str, i, i) = "m"
                    /\ \A j \in 2..(i - 1) : SubSeq(str, j, j) # "m"
         IN  Shown(SubSeq(str, m + 1, Len(str)))
    ELSE SubSeq(str, 1, 1) \o Shown(SubSeq(str, 2, Len(str)))

\* the values given to arg_secret
Secrets ==
    {command.print[i].value : i \in
        {j \in 1..Len(command.print) : command.print[j].kind = "ArgSecret"}}

\* the run has failed with an error that carries the command's reproduction
FailedWithReproduction ==
    /\ command.pc = "returned"
    /\ ~command.result.ok
    /\ Len(command.result.val.note) >= 1

Reproduction == command.result.val.note[1]

\* C17: whatever arg, arg_secret, cwd and env calls built the command and
\* whatever the length of a secret s given to arg_secret, the reproduction
\* attached to a failure does not contain s and contains the first three
\* characters of s followed by **.
C17_SecretRedacted ==
    FailedWithReproduction =>
        \A secret \in Secrets :
            /\ ~Contains(Shown(Reproduction), secret)
            /\ Contains(Shown(Reproduction), take3(secret) \o "**")

\* the same for the secrets of more than three characters that are not
\* also part of something else given to the builder
C17_LongSecretRedacted ==
    FailedWithReproduction =>
        \A secret \in Secrets :
            /\ Len(secret) > 3
            /\ \A i \in 1..Len(command.print) :
                command.print[i].kind # "ArgSecret" =>
                    ~Contains(command.print[i].value, secret)
            => /\ ~Contains(Shown(Reproduction), secret)
               /\ Contains(Shown(Reproduction), take3(secret) \o "**")

\* the subprocess was spawned and exited with this status
Exited(code) ==
    /\ command.pc = "returned"
    /\ command.child.spawn_ok
    /\ command.child.code.some
    /\ command.child.code.val = code

\* the error of a subprocess that failed: the captured standard error as
\* the message, the reproduction and the exit code as notes
IsSubprocessFailed(err, code) ==
    /\ err.message = from_utf8_lossy(join(command.child.stderr, ""))
    /\ Len(err.note) = 2
    /\ err.note[1] =
        "the command ran was " \o bold(format_program(command.print))
    /\ Shown(err.note[2]) = "exit code: " \o ToString(code)

\* C19: in Collect mode (run) and Streamed-stdout mode (run_stdout) a
\* subprocess that exits with a nonzero status makes the call fail with
\* its whole standard error as the message and with the reproduction and
\* the exit code as notes; one that exits with status zero never yields an
\* error, and run then returns its whole standard output.
C19_SubprocessFailed ==
    /\ Exited(1) =>
        /\ ~command.result.ok
        /\ IsSubprocessFailed(command.result.val, 1)
    /\ Exited(0) =>
        /\ command.result.ok
        /\ command.mode = "run" =>
            command.result.val =
                from_utf8_lossy(join(command.child.stdout, ""))

\* the same for the subprocesses whose standard output is valid UTF-8
C19_SubprocessFailedUtf8 ==
    (command.pc = "returned"
        /\ \A i \in 1..Len(command.child.stdout) :
                IsUtf8(command.child.stdout[i]))
    => C19_SubprocessFailed

(***************************************************************************)
(* Streamed-both mode                                                      *)
(***************************************************************************)
\* the lines given to the stdout callback (ok = TRUE) or to the stderr
\* callback (ok = FALSE) so far, in the order of the calls
RECURSIVE LinesOf(_, _)
LinesOf(output, ok) ==
    IF output = <<>> THEN <<>>
    ELSE (IF Head(output).ok = ok THEN <<Head(output).val>> ELSE <<>>)
            \o LinesOf(Tail(output), ok)

IsPrefix(p, q) == Len(p) <= Len(q) /\ SubSeq(q, 1, Len(p)) = p

\* run_stdout_stderr has spawned the subprocess
Streaming ==
    /\ command.mode = "run_stdout_stderr"
    /\ command.child.spawn_ok

\* C18: in streamed-both mode, under every interleaving of the two reader
\* threads and the receiving thread, the lines of each stream reach their
\* callback in the order they were written, and when the call returns every
\* line written to standard output has been given exactly once to the stdout
\* callback and every line written to standard error exactly once to the
\* stderr callback.
C18_EveryLineOnceInOrder ==
    Streaming =>
        /\ IsPrefix(LinesOf(pipe.output, TRUE), command.child.stdout)
        /\ IsPrefix(LinesOf(pipe.output, FALSE), command.child.stderr)
        /\ command.pc = "returned" =>
            /\ LinesOf(pipe.output, TRUE) = command.child.stdout
            /\ LinesOf(pipe.output, FALSE) = command.child.stderr

\* the same for the subprocesses that write valid UTF-8 only
C18_EveryLineOnceInOrderUtf8 ==
    (/\ Streaming
     /\ \A i \in 1..Len(command.child.stdout) :
            IsUtf8(command.child.stdout[i])
     /\ \A j \in 1..Len(command.child.stderr) :
            IsUtf8(command.child.stderr[j]))
    => C18_EveryLineOnceInOrder

\* the order across the two streams varies: a standard-error line is
\* delivered before a standard-output line
C18_CrossOrderVaries ==
    /\ Streaming
    /\ Len(pipe.output) >= 2
    /\ ~pipe.output[1].ok
    /\ pipe.output[2].ok

(***************************************************************************)
(* Status reporter                                                         *)
(***************************************************************************)
\* the stack the reporter keeps for a thread, as the spans it holds
StackOf(t) ==
    LET i == find(reporter.stacks, t)
    IN  IF i = 0 THEN <<>>
        ELSE [k \in 1..Len(reporter.stacks[i].stack) |->
                reporter.stacks[i].stack[k].span]

\* the spans a thread has begun and not yet released, in begin order
Held(t) ==
    [k \in 1..Len(reporter.guards[t]) |-> reporter.guards[t][k].span]

\* C20: after any interleaving of begin_span calls and scope releases on
\* several threads, the stack of each thread is exactly the sequence of the
\* spans that thread has begun and not yet released, in begin order; the
\* reporter keeps one stack per thread, and a release by error propagation
\* pops like any other.
C20_StackIsHeldSpans ==
    /\ \A t \in Threads : StackOf(t) = Held(t)
    /\ \A i, j \in 1..Len(reporter.stacks) :
        reporter.stacks[i].thread = reporter.stacks[j].thread => i = j

\* C20, as steps: a step changes the stack of one thread at most, and only
\* by pushing one span on it or by removing its most recent span.
C20_OneThreadPushOrPop ==
    [][\A t \in Threads :
        \/ StackOf(t)' = StackOf(t)
        \/ /\ \A u \in Threads \ {t} : StackOf(u)' = StackOf(u)
           /\ \/ /\ Len(StackOf(t)') = Len(StackOf(t)) + 1
                 /\ SubSeq(StackOf(t)', 1, Len(StackOf(t))) = StackOf(t)
              \/ /\ StackOf(t) # <<>>
                 /\ StackOf(t)' = SubSeq(StackOf(t), 1, Len(StackOf(t)) - 1)
      ]_vars

\* two threads hold nested spans while a third has released one by error
\* propagation and still holds the span it began first
C20_Witness ==
    /\ reporter.unwinding["vst3"]
    /\ StackOf("vst3") = <<"fetch">>
    /\ StackOf("main") = <<"build", "fetch">>
    /\ StackOf("pico") = <<"fetch", "build">>
    /\ reporter.stacks[1].thread = "pico"

\* a step of report_message by thread t
ReportsMessage(t, message) == report_message(t, message)

\* the stack the reporter keeps for a thread
EntryOf(stacks, t) ==
    IF find(stacks, t) = 0 THEN <<>> ELSE stacks[find(stacks, t)].stack

\* C21: report_message changes only the latest message of the top span of
\* the stack of the calling thread: the span display strings, the messages
\* of the lower spans, every stack depth and the stack of every other thread
\* stay as they were; when the calling thread has no span the stacks do not
\* change at all; in log mode the message line is written in both cases.
C21_MessageFrame ==
    [][\A t \in Threads, message \in Messages :
        ReportsMessage(t, message) =>
            /\ Len(reporter.stacks') = Len(reporter.stacks)
            /\ \A i \in 1..Len(reporter.stacks) :
                reporter.stacks'[i].thread = reporter.stacks[i].thread
            /\ \A u \in Threads \ {t} :
                EntryOf(reporter.stacks', u) = EntryOf(reporter.stacks, u)
            /\ LET old == EntryOf(reporter.stacks, t)
                   new == EntryOf(reporter.stacks', t)
               IN  /\ Len(new) = Len(old)
                   /\ \A k \in 1..Len(old) : new[k].span = old[k].span
                   /\ \A k \in 1..(Len(old) - 1) :
                        new[k].message = old[k].message
                   /\ old # <<>> => new[Len(new)].message = message
            /\ reporter.guards' = reporter.guards
            /\ reporter.log_mode =>
                reporter.drawn' = <<"  " \o message>>
      ]_vars

\* a thread with two spans has reported a message while another thread
\* holds a span whose message is still the one it began with
C21_Witness ==
    /\ Len(EntryOf(reporter.stacks, "vst3")) = 2
    /\ EntryOf(reporter.stacks, "vst3")[2].message = "working"
    /\ EntryOf(reporter.stacks, "vst3")[1].message = "fetch"
    /\ EntryOf(reporter.stacks, "main") = <<[span |-> "build", message |-> "build"]>>
    /\ reporter.log_mode
    /\ reporter.drawn = <<"  working">>

\* a thread without a span has reported a message in log mode
C21_WitnessNoSpan ==
    /\ EntryOf(reporter.stacks, "pico") = <<>>
    /\ reporter.stacks # <<>>
    /\ reporter.log_mode
    /\ reporter.drawn = <<"  working">>

(***************************************************************************)
(* Errors                                                                  *)
(***************************************************************************)
\* C22: the trace of an error is the span stack of the thread that
\* constructed it, outermost first, as it was when the error was constructed,
\* whatever with_note, with_message and span releases happen afterwards; the
\* notes are the arguments of the calls of with_note in call order, and the
\* message is the argument of the latest with_message, or of Error::new.
C22_TraceIsSnapshot ==
    error.pc = "built" =>
        /\ error.val.trace = error.spans
        /\ error.val.note = error.notes
        /\ error.val.message = error.text

\* an error constructed under two spans has two notes and a new message,
\* and its thread has released both spans since
C22_Witness ==
    /\ error.pc = "built"
    /\ error.thread = "vst3"
    /\ error.val.trace = <<"build", "fetch">>
    /\ error.val.note = <<"n2", "n1">>
    /\ error.val.message = "bad"
    /\ error.text # "boom"
    /\ reporter.guards["vst3"] = <<>>
    /\ reporter.guards["main"] # <<>>

(***************************************************************************)
(* cargo_build                                                             *)
(***************************************************************************)
\* the rendered texts of the compiler-message records of these lines, the
\* native-static-libs records left out, in order
RECURSIVE Diagnostics(_)
Diagnostics(lines) ==
    IF lines = <<>> THEN <<>>
    ELSE (IF Head(lines).object /\ Head(lines).reason = "compiler-message"
             /\ ~HasPrefix(Head(lines).message.val, "native-static-libs: ")
          THEN <<Head(lines).rendered.val>> ELSE <<>>)
            \o Diagnostics(Tail(lines))

\* the compiler was spawned and exited with a nonzero status
CompilerFailed ==
    /\ cargo.pc = "returned"
    /\ cargo.child.spawn_ok
    /\ cargo.child.code.some
    /\ cargo.child.code.val # 0

\* C23: when the compiler exits with a nonzero status, cargo_build returns
\* an error whose message is the rendered texts of all compiler-message
\* records written to standard output, in order, joined by newlines, the
\* native-static-libs records left out, or the generic message when there
\* is none; its notes are the notes of the subprocess failure followed by
\* 'compilation failure while running cargo'; no artifact is returned.
C23_CompilerFailure ==
    CompilerFailed =>
        /\ ~cargo.result.ok
        /\ cargo.result.val.message =
            (IF Diagnostics(cargo.child.stdout) = <<>> THEN GENERIC_MESSAGE
             ELSE join(Diagnostics(cargo.child.stdout), "\n"))
        /\ Len(cargo.result.val.note) = 3
        /\ HasPrefix(cargo.result.val.note[1], "the command ran was ")
        /\ HasPrefix(cargo.result.val.note[2], "exit code: ")
        /\ cargo.result.val.note[3] = "compilation failure while running cargo"

\* the same for the compilers whose output is valid UTF-8
C23_CompilerFailureUtf8 ==
    (/\ \A i \in 1..Len(cargo.child.stdout) : cargo.child.stdout[i].utf8
     /\ \A j \in 1..Len(cargo.child.stderr) : IsUtf8(cargo.child.stderr[j]))
    => C23_CompilerFailure

(***************************************************************************)
(* Artifact paths                                                          *)
(***************************************************************************)
\* a package name with every - replaced by _
Underscored(name) ==
    CASE name = "demo" -> "demo"
      [] name = "my-plug" -> "my_plug"
      [] name = "a-b-c" -> "a_b_c"

\* the file name table: operating system, environment, crate type
TableFilename(os, env, crate_type, pkg) ==
    CASE os = "linux" /\ crate_type = "Cdylib" -> "lib" \o pkg \o ".so"
      [] os = "linux" /\ crate_type = "Staticlib" -> "lib" \o pkg \o ".a"
      [] os \in {"darwin", "macosx"} /\ crate_type = "Cdylib" ->
            "lib" \o pkg \o ".dylib"
      [] os \in {"darwin", "macosx"} /\ crate_type = "Staticlib" ->
            "lib" \o pkg \o ".a"
      [] os = "windows" /\ crate_type = "Cdylib" -> pkg \o ".dll"
      [] os = "windows" /\ crate_type = "Staticlib" /\ env = "msvc" ->
            pkg \o ".lib"
      [] os = "windows" /\ crate_type = "Staticlib" /\ env # "msvc" ->
            "lib" \o pkg \o ".a"

TableProfileDir(profile) ==
    IF profile \in {"release", "bench"} THEN "release"
    ELSE IF profile \in {"dev", "test"} THEN "debug"
    ELSE profile

PathReturned == fncall.pc = "returned" /\ fncall.fn = "cargo_output_path"

\* C24: the predicted artifact path is
\* <target-dir>/<triple>/<profile-dir>/<filename>, the file name taken from
\* the table with the package name underscored, the profile directory
\* release for release and bench, debug for dev and test, and the profile
\* name otherwise; an operating system other than Linux, Darwin and Windows
\* is an error.
C24_ArtifactPath ==
    PathReturned =>
        LET a == fncall.args
            os == a.triple.operating_system
        IN  IF os \in {"linux", "darwin", "macosx", "windows"}
            THEN /\ fncall.result.ok
                 /\ fncall.result.val =
                        a.target_dir \o "/" \o TripleToString(a.triple)
                            \o "/" \o TableProfileDir(a.profile) \o "/"
                            \o TableFilename(os, a.triple.environment,
                                    a.crate_type, Underscored(a.package))
            ELSE ~fncall.result.ok

\* the static library of a-b-c for Windows gnu with a profile of its own
C24_Witness ==
    /\ PathReturned
    /\ fncall.result = Ok("/tmp/out/x86_64-pc-windows-gnu/fast/liba_b_c.a")

(***************************************************************************)
(* Target strings                                                          *)
(***************************************************************************)
TargetReturned ==
    fncall.pc = "returned" /\ fncall.fn = "BuildTarget::from_str"

C25_WitnessUniversal ==
    /\ TargetReturned
    /\ fncall.args = "UNIVERSAL-APPLE-DARWIN"
    /\ fncall.result.first = Ok(AppleUniversal)
    /\ fncall.result.rendered = "universal-apple-darwin"

(***************************************************************************)
(* Shim triples                                                            *)
(***************************************************************************)
\* the shim's name of an operating system and of an environment, "" for an
\* operating system or environment the shim is not given
ShimOs(os) ==
    IF os = "linux" THEN "linux"
    ELSE IF os \in {"darwin", "macosx"} THEN "macos"
    ELSE IF os = "windows" THEN "windows"
    ELSE ""

ShimSupported(triple) ==
    /\ ShimOs(triple.operating_system) # ""
    /\ triple.environment \in {"gnu", "musl", "msvc", "unknown"}

\* <arch>-<os>[-<env>][.<libc>]
ShimTriple(target) ==
    target.triple.architecture \o "-"
        \o ShimOs(target.triple.operating_system)
        \o (IF target.triple.environment = "unknown" THEN ""
            ELSE "-" \o target.triple.environment)
        \o (IF target.kind = "TripleGlibc" THEN "." \o target.glibc ELSE "")

\* the shim triple is computed for this target
ShimComputed(target) ==
    target.kind = "TripleGlibc" \/ ~is_supported(target, host)

\* C26: the shim triple computed for a triple and an optional libc version
\* is <arch>-<os>[-<env>][.<libc>], with the libc suffix exactly when a
\* version is given; for any other operating system or environment the
\* build fails with the unsupported-target error, and the compiler is not
\* run for that target.
C26_ZigTriple ==
    /\ \A k \in 1..Len(b.artifacts) :
        LET a == b.artifacts[k]
        IN  /\ a.zig_triple.some <=> ShimComputed(a.target)
            /\ a.zig_triple.some =>
                /\ ShimSupported(a.target.triple)
                /\ a.zig_triple.val = ShimTriple(a.target)
    /\ \A k \in 1..Len(trace) :
        trace[k].op = "cargo rustc" =>
            ~(/\ ShimComputed(req.targets[trace[k].ti])
              /\ ~ShimSupported(req.targets[trace[k].ti].triple))
    /\ \A k \in 1..Len(req.targets) :
        (/\ ShimComputed(req.targets[k])
         /\ ~ShimSupported(req.targets[k].triple)
         /\ (b.ti > k \/ b.pc = "done"))
        => /\ b.result.returned
           /\ ~b.result.ok
           /\ b.ti <= k
           /\ b.ti = k =>
                b.result.val \in {"unsupported operating system",
                                  "unsupported environment"}

\* x86_64-unknown-linux-gnu with 2.17 was compiled with the shim triple
\* x86_64-linux-gnu.2.17, and the build failed at the next target, whose
\* environment the shim is not given, without running the compiler for it
C26_Witness ==
    /\ Len(b.artifacts) = 1
    /\ b.artifacts[1].zig_triple = Some("x86_64-linux-gnu.2.17")
    /\ b.ti = 2
    /\ b.result.returned
    /\ b.result.val = "unsupported environment"
    /\ Len(trace) = 1

(***************************************************************************)
(* Local VST3 SDK                                                          *)
(***************************************************************************)
\* the VST3 task has finished for an SDK given as a local path
LocalSdkResolved ==
    /\ req.vst3 = "Local"
    /\ thr["vst3"].pc = "finished"

\* the fetch commands of the VST3 task
Vst3Fetches ==
    {k \in 1..Len(thr["vst3"].log) : thr["vst3"].log[k].op = "fetch"}

\* C27: when the VST3 SDK is given as a local path that does not exist,
\* the VST3 task fails with the error that names the path and says that the
\* local path does not exist, not with an I/O error; when the path exists
\* it is returned as given; the cache is not used for the SDK either way.
C27_MissingLocalSdk ==
    LocalSdkResolved =>
        /\ Vst3Fetches = {}
        /\ thr["vst3"].result.ok =>
            thr["vst3"].result.val = Some("local-vst3-sdk")
        /\ ~thr["vst3"].result.ok =>
            thr["vst3"].result.val = "vst3-sdk not found at local-vst3-sdk"

\* the same without the error that is returned for a missing path
C27_LocalSdkReturned ==
    LocalSdkResolved =>
        /\ Vst3Fetches = {}
        /\ thr["vst3"].result.ok =>
            thr["vst3"].result.val = Some("local-vst3-sdk")
        /\ ~thr["vst3"].result.ok =>
            thr["vst3"].result.val = "io: No such file or directory"

(***************************************************************************)
(* Post-build stage: main runs one task per artifact with run_parallel     *)
(***************************************************************************)
PostSteps == <<"copy", "sign", "notarize", "install">>

\* an artifact as the task sees it: package and whether its target is
\* supported by the host
PostArtifacts == [package : {"my-plug"}, supported : BOOLEAN]

\* a spawned scoped thread running the closure of main for one artifact
PostTask == [pc |-> "copy", log |-> <<>>, result |-> Ok(<<>>)]

\* the install step when it is to be performed for artifact a
PostInstallOrDone(a) ==
    IF post.install /\ a.supported THEN "install" ELSE "done"

\* the step that follows `step` when it succeeded
PostAfter(step, a) ==
    CASE step = "copy" ->
            IF post.codesign \/ post.macos THEN "sign"
            ELSE PostInstallOrDone(a)
      [] step = "sign" ->
            IF post.codesign THEN "notarize" ELSE PostInstallOrDone(a)
      [] step = "notarize" -> PostInstallOrDone(a)
      [] step = "install" -> "done"

\* task i performs `step`; an error leaves the closure through `?`
PostPerform(i, step, ok) ==
    /\ post.pc \in {"spawn", "join", "leaving"}
    /\ i \in 1..Len(post.tasks)
    /\ post.tasks[i].pc = step
    /\ post' = [post EXCEPT
            !.tasks[i].log = Append(@, [step |-> step, ok |-> ok]),
            !.tasks[i].pc =
                IF ok THEN PostAfter(step, post.artifacts[i]) ELSE "done",
            !.tasks[i].result =
                IF ok THEN @ ELSE Err(<<step, ToString(i)>>)]
    /\ UNCHANGED <<cache_vars, build_vars, fmtlibs, command, pipe, reporter,
                   error, cargo, fncall>>

\* create_dir_all, wait_unlink and reflink to the output directory
post_copy == \E i \in 1..MaxArtifacts, ok \in BOOLEAN : PostPerform(i, "copy", ok)

\* codesign_bundle, with the identity or ad hoc on a macOS host
post_sign == \E i \in 1..MaxArtifacts, ok \in BOOLEAN : PostPerform(i, "sign", ok)

\* notarize_bundle
post_notarize ==
    \E i \in 1..MaxArtifacts, ok \in BOOLEAN : PostPerform(i, "notarize", ok)

\* plugin_system_folder, create_dir_all, wait_unlink and reflink
post_install ==
    \E i \in 1..MaxArtifacts, ok \in BOOLEAN : PostPerform(i, "install", ok)

\* run_parallel: the loop that spawns one scoped thread per item
post_spawn ==
    /\ post.pc = "spawn"
    /\ post' = [post EXCEPT
            !.tasks = Append(@, PostTask),
            !.pc = IF Len(post.tasks) + 1 = Len(post.artifacts)
                   THEN "join" ELSE "spawn"]
    /\ UNCHANGED <<cache_vars, build_vars, fmtlibs, command, pipe, reporter,
                   error, cargo, fncall>>

\* run_parallel: the loop that joins the handles in the order of the items
post_join ==
    /\ post.pc = "join"
    /\ LET i == Len(post.joined) + 1 IN
        /\ post.tasks[i].pc = "done"
        /\ IF ~post.tasks[i].result.ok
           THEN post' = [post EXCEPT !.pc = "leaving",
                                     !.outcome = post.tasks[i].result]
           ELSE post' = [post EXCEPT
                    !.joined = Append(@, post.tasks[i].result.val),
                    !.outcome = Ok(Append(post.joined, post.tasks[i].result.val)),
                    !.pc = IF i = Len(post.tasks) THEN "leaving" ELSE "join"]
    /\ UNCHANGED <<cache_vars, build_vars, fmtlibs, command, pipe, reporter,
                   error, cargo, fncall>>

\* a stage that returns as soon as the join loop is left
post_return_NoScope ==
    /\ post.pc = "leaving"
    /\ post' = [post EXCEPT !.pc = "returned",
                            !.result = post.outcome,
                            !.reloaded = post.outcome.ok /\ post.install]
    /\ UNCHANGED <<cache_vars, build_vars, fmtlibs, command, pipe, reporter,
                   error, cargo, fncall>>

\* std::thread::scope returns once every thread spawned in it has finished;
\* main then reloads the audio unit cache when install was requested
post_return ==
    /\ post.pc = "leaving"
    /\ \A i \in 1..Len(post.tasks) : post.tasks[i].pc = "done"
    /\ post' = [post EXCEPT !.pc = "returned",
                            !.result = post.outcome,
                            !.reloaded = post.outcome.ok /\ post.install]
    /\ UNCHANGED <<cache_vars, build_vars, fmtlibs, command, pipe, reporter,
                   error, cargo, fncall>>

InitPost ==
    /\ NoCache /\ NoBuild
    /\ fmtlibs = FmtIdle /\ command = CommandIdle
    /\ pipe = PipeIdle /\ reporter = ReporterIdle
    /\ error = ErrorIdle /\ cargo = CargoIdle /\ fncall = FnIdle
    /\ \E arts \in SeqsUpTo(PostArtifacts, MaxArtifacts),
          cs \in BOOLEAN, mac \in BOOLEAN, ins \in BOOLEAN :
        post = [pc |-> "spawn", artifacts |-> arts, codesign |-> cs,
                macos |-> mac, install |-> ins, tasks |-> <<>>,
                joined |-> <<>>, outcome |-> Ok(<<>>), result |-> Ok(<<>>),
                reloaded |-> FALSE]

NextPost ==
    \/ post_spawn
    \/ post_copy
    \/ post_sign
    \/ post_notarize
    \/ post_install
    \/ post_join
    \/ post_return

SpecPost == InitPost /\ [][NextPost]_vars

(***************************************************************************)
(* Post-build stage                                                        *)
(***************************************************************************)
\* the position of a step in the order copy, sign, notarize, install
PostRank(step) ==
    CHOOSE k \in 1..Len(PostSteps) : PostSteps[k] = step

\* the steps task i has performed
PostDone(i) ==
    {post.tasks[i].log[k].step : k \in 1..Len(post.tasks[i].log)}

\* the tasks that have failed
PostFailed ==
    {i \in 1..Len(post.tasks) : ~post.tasks[i].result.ok}

\* task i has performed its steps in the order copy, sign, notarize,
\* install, beginning with copy and ending at the first failing step
PostInOrder(i) ==
    LET log == post.tasks[i].log IN
    /\ log # <<>> => log[1].step = "copy"
    /\ \A k \in 1..Len(log) - 1 :
        /\ PostRank(log[k].step) < PostRank(log[k + 1].step)
        /\ log[k].ok
    /\ "notarize" \in PostDone(i) =>
        post.codesign /\ "sign" \in PostDone(i)
    /\ "sign" \in PostDone(i) => post.codesign \/ post.macos
    /\ "install" \in PostDone(i) =>
        post.install /\ post.artifacts[i].supported

\* a task that has finished without an error has performed every step
\* that applies to its artifact
PostComplete(i) ==
    post.tasks[i].pc = "done" /\ post.tasks[i].result.ok =>
        /\ "copy" \in PostDone(i)
        /\ post.codesign => {"sign", "notarize"} \subseteq PostDone(i)
        /\ post.macos => "sign" \in PostDone(i)
        /\ post.install /\ post.artifacts[i].supported =>
            "install" \in PostDone(i)

\* the smallest member of a nonempty set of task numbers
PostFirst(S) == CHOOSE i \in S : \A j \in S : i <= j

\* C28: every post-build task performs its steps in the order copy, sign,
\* notarize, install, with notarize only when signing credentials are given
\* and install only when it is requested and the target is supported by the
\* host; a failing step is the last step of its task; the stage returns
\* only after every task has finished, with the error of the first failing
\* artifact in list order when one failed.
C28_PostBuildOrder ==
    /\ \A i \in 1..Len(post.tasks) :
        /\ PostInOrder(i)
        /\ PostComplete(i)
        /\ ~post.tasks[i].result.ok =>
            /\ post.tasks[i].pc = "done"
            /\ ~post.tasks[i].log[Len(post.tasks[i].log)].ok
    /\ post.pc = "returned" =>
        /\ Len(post.tasks) = Len(post.artifacts)
        /\ \A i \in 1..Len(post.tasks) : post.tasks[i].pc = "done"
        /\ IF PostFailed = {}
           THEN post.result.ok /\ Len(post.result.val) = Len(post.artifacts)
           ELSE post.result = post.tasks[PostFirst(PostFailed)].result

\* the stage has returned the error of the first of two failing artifacts,
\* after the second artifact was signed, notarized and failed to install
C28_Witness ==
    /\ post.pc = "returned"
    /\ PostFailed = {1, 2}
    /\ post.result = Err(<<"copy", "1">>)
    /\ PostDone(2) = {"copy", "sign", "notarize", "install"}

\* the second task has finished before the first one has begun
C28_WitnessSecondFirst ==
    /\ Len(post.tasks) = 2
    /\ post.tasks[2].pc = "done"
    /\ post.tasks[1].log = <<>>

\* the first task has finished before the second one has begun
C28_WitnessFirstFirst ==
    /\ Len(post.tasks) = 2
    /\ post.tasks[1].pc = "done"
    /\ post.tasks[2].log = <<>>

\* the join loop was left with the error of the first artifact while the
\* task of the second one was still running
C28_WitnessLeaving ==
    /\ post.pc = "leaving"
    /\ ~post.outcome.ok
    /\ Len(post.tasks) = 2
    /\ post.tasks[2].pc # "done"

(***************************************************************************)
(* The checks of build                                                     *)
(***************************************************************************)
\* the commands that fetch dependencies, compile or build the wrapper
WorkOps == CompilerOps \cup WrapperOps \cup
    {"fetch", "load_dependencies", "cargo locate-project", "cargo metadata"}

\* the positions of trace with a command of the set ops
TraceOf(ops) == {i \in 1..Len(trace) : trace[i].op \in ops}

\* no dependency was fetched, nothing was compiled, no wrapper was built
NoWork ==
    /\ TraceOf(WorkOps) = {}
    /\ \A t \in DOMAIN thr : thr[t].pc = "unspawned" /\ thr[t].log = <<>>

\* build is past its checks
ChecksPassed == Decided /\ b.pc \notin {"ensure_zig", "ensure_cmake"}

\* the checks of build, given the two conditions: a check runs exactly
\* when its condition holds (the CMake check after a passed shim check), a
\* shim that is missing or reports a minor version below 14 fails build,
\* and all work comes after the checks that apply have passed
ChecksPrecede(cross, wrapper) ==
    LET zig == TraceOf({"zig version"})
        cmake == TraceOf({"cmake --version"})
    IN  /\ Decided /\ b.pc # "ensure_zig" => (zig # {} <=> cross)
        /\ ChecksPassed =>
            (cmake # {} <=> wrapper /\ \A i \in zig : trace[i].ok)
        /\ \A i \in zig \cup cmake :
            /\ \A j \in TraceOf(WorkOps) : i < j
            /\ ~trace[i].ok =>
                /\ i = Len(trace)
                /\ b.result.returned /\ ~b.result.ok
                /\ NoWork
        /\ \A i \in zig : trace[i].ok <=> zig_minor(b.zig_version) >= 14
        /\ ~NoWork =>
            /\ cross => \E i \in zig : trace[i].ok
            /\ wrapper => \E i \in cmake : trace[i].ok

\* C29: when needs-cross holds the shim version check runs, and a shim that
\* is missing or reports a minor version below 14 fails build before any
\* dependency fetch, compiler or wrapper invocation; when needs-wrapper
\* holds the CMake check runs and precedes all of them; neither check runs
\* when its condition is false.
C29_ChecksFirst ==
    ChecksPrecede(NeedsCrossAsStated,
                  req.vst3 # "None" \/ req.auv2 \/ NeedsCrossAsStated)

\* the same with the conditions read as the flags build computes
C29_ChecksFirstOfFlag == ChecksPrecede(b.use_zig, b.use_cmake)

\* a shim that reports version 1.2.0 has failed build before any work
C29_WitnessOfFlag ==
    /\ b.use_zig
    /\ b.zig_version = "1.2.0\n"
    /\ b.result.returned /\ ~b.result.ok
    /\ NoWork

\* the shim and the CMake check have passed and the wrapper was built
C29_WitnessWork ==
    /\ b.use_zig
    /\ TraceOf({"cmake --version"}) # {}
    /\ TraceOf(WrapperOps) # {}

(***************************************************************************)
(* cmake.rs: build_wrapper, with the two cmake commands as it runs them    *)
(***************************************************************************)
\* Option::unwrap_or_default of an optional string
unwrap_or_default(opt) == IF opt.some THEN opt.val ELSE ""

\* lines 39-50: the environment of both commands
wrapper_envs(options) ==
    << <<"PICO_PLUGIN_STATIC_LIB", options.static_lib>>,
       <<"PICO_PLUGIN_NAME", options.package>>,
       <<"PICO_PLUGIN_WANT_AUV2",
            IF options.auv2 /\ options.osx_arch.some THEN "AUV2" ELSE "">>,
       <<"PICO_PLUGIN_WANT_VST3", IF options.vst3.some THEN "VST3" ELSE "">>,
       <<"PICO_SDK_VST3", unwrap_or_default(options.vst3)>>,
       <<"PICO_BUILD_ZIG_TARGET", unwrap_or_default(options.zig_triple)>>,
       <<"PICO_BUILD_OSX_ARCH", unwrap_or_default(options.osx_arch)>>,
       <<"PICO_BUILD_TYPE", "Release">>,
       <<"PICO_BUILD_NATIVE_STATIC_LIBS",
            IF options.native_static_libs.some
            THEN format_native_static_libs(options.native_static_libs.val)
            ELSE "">> >>

\* a cmake command: its arguments, working directory and environment, and
\* whether run_stdout_stderr returned Ok
CmakeCommand(args, cwd, envs, ok) ==
    [program |-> "cmake", args |-> args, cwd |-> cwd, envs |-> envs,
     ok |-> ok]

\* the call runs a command and goes on at pc, or returns
WrapperRan(cmd, pc) ==
    /\ fncall' = [fncall EXCEPT !.pc = pc, !.log = Append(@, cmd)]
    /\ UNCHANGED <<cache_vars, build_vars, fmtlibs, command, pipe, reporter,
                   error, cargo, post>>
WrapperReturned(cmd, result) ==
    /\ fncall' = [fncall EXCEPT !.pc = "returned", !.result = result,
                                !.log = Append(@, cmd)]
    /\ UNCHANGED <<cache_vars, build_vars, fmtlibs, command, pipe, reporter,
                   error, cargo, post>>

\* a wrapper builder that builds whatever the configure step left
wrapper_configure_KeepGoing ==
    /\ fncall.pc = "called"
    /\ fncall.fn = "build_wrapper"
    /\ \E ok \in BOOLEAN :
        WrapperRan(CmakeCommand(<<fncall.args.cmake_dir>>,
                        wrapper_build_dir(fncall.args),
                        wrapper_envs(fncall.args), ok), "configured")
\* lines 32-69: cmake <cmake_dir> in the build directory
wrapper_configure ==
    /\ fncall.pc = "called"
    /\ fncall.fn = "build_wrapper"
    /\ \E ok \in BOOLEAN :
        LET cmd == CmakeCommand(<<fncall.args.cmake_dir>>,
                        wrapper_build_dir(fncall.args),
                        wrapper_envs(fncall.args), ok)
        IN  IF ok THEN WrapperRan(cmd, "configured")
            ELSE WrapperReturned(cmd, Err("failed to configure clap-wrapper"))

\* lines 71-104: cmake --build . in the build directory, and the output
wrapper_build ==
    /\ fncall.pc = "configured"
    /\ \E ok \in BOOLEAN :
        LET cmd == CmakeCommand(<<"--build", ".">>,
                        wrapper_build_dir(fncall.args),
                        wrapper_envs(fncall.args), ok)
        IN  WrapperReturned(cmd,
                IF ok THEN Ok(ClapWrapperOutput(fncall.args,
                                fncall.args.vst3, fncall.args.auv2))
                ELSE Err("failed to build clap-wrapper"))

ClapWrapperOptions ==
    [cmake_dir : {"deps/picobundler-cmake"},
     package : {"demo", "my-plug"},
     static_lib : {"target/release/libdemo.a"},
     native_static_libs : {None, Some("-lgcc_s -framework Cocoa")},
     zig_triple : {None, Some("x86_64-linux-gnu.2.17")},
     osx_arch : {None, Some("arm64")},
     vst3 : {None, Some("deps/vst3-sdk")},
     auv2 : BOOLEAN]

InitWrapper ==
    /\ NoCache /\ NoBuild
    /\ fmtlibs = FmtIdle /\ command = CommandIdle
    /\ pipe = PipeIdle /\ reporter = ReporterIdle
    /\ error = ErrorIdle /\ cargo = CargoIdle /\ post = PostIdle
    /\ \E options \in ClapWrapperOptions :
        fncall = [pc |-> "called", fn |-> "build_wrapper", args |-> options,
                  result |-> Ok(""), log |-> <<>>]

NextWrapper == wrapper_configure \/ wrapper_build

SpecWrapper == InitWrapper /\ [][NextWrapper]_vars

\* the commands build_wrapper has run
WrapperLog == fncall.log

\* C30: build_wrapper runs cmake to configure and then cmake to build, in
\* the same build subdirectory of the triple and with the same environment;
\* the build command runs only after a successful configure, a failed
\* configure returns an error without a build command, and the output is
\* returned only after both commands succeeded.
C30_ConfigureThenBuild ==
    LET dir == "target/clap-wrapper/build/" \o
                (IF fncall.args.zig_triple.some
                 THEN fncall.args.zig_triple.val ELSE "host")
    IN
    /\ Len(WrapperLog) <= 2
    /\ Len(WrapperLog) >= 1 =>
        /\ WrapperLog[1].args = <<fncall.args.cmake_dir>>
        /\ WrapperLog[1].cwd = dir
        /\ ~WrapperLog[1].ok =>
            /\ Len(WrapperLog) = 1
            /\ fncall.pc = "returned" /\ ~fncall.result.ok
    /\ Len(WrapperLog) = 2 =>
        /\ WrapperLog[1].ok
        /\ WrapperLog[2].args = <<"--build", ".">>
        /\ WrapperLog[2].cwd = WrapperLog[1].cwd
        /\ WrapperLog[2].envs = WrapperLog[1].envs
        /\ fncall.pc = "returned"
        /\ fncall.result.ok <=> WrapperLog[2].ok
    /\ fncall.pc = "returned" /\ fncall.result.ok =>
        /\ Len(WrapperLog) = 2
        /\ \A k \in 1..2 : WrapperLog[k].ok
    /\ fncall.pc = "configured" => Len(WrapperLog) = 1 /\ WrapperLog[1].ok

\* the output was returned after both commands ran for a cross build
C30_Witness ==
    /\ fncall.pc = "returned"
    /\ fncall.result.ok
    /\ Len(WrapperLog) = 2
    /\ WrapperLog[2].cwd = "target/clap-wrapper/build/x86_64-linux-gnu.2.17"
    /\ WrapperLog[2].envs[6] = <<"PICO_BUILD_ZIG_TARGET", "x86_64-linux-gnu.2.17">>

\* a failed configure has returned an error and no build command was run
C30_WitnessConfigureFailed ==
    /\ fncall.pc = "returned"
    /\ ~fncall.result.ok
    /\ Len(WrapperLog) = 1

(***************************************************************************)
(* SpecLog: two threads begin spans, report messages and lines of          *)
(* subprocesses and leave their scopes while the refresh thread reports    *)
(* updates, for every setting of the terminal.                             *)
(***************************************************************************)
\* the threads of SpecLog and what they report: a line as read_line
\* returns it, and an empty line
LogThreads == {"main", "vst3"}
LogMessages == {"out\n", "\n"}

\* a terminal with the status bar, and one for each reason for log mode
Term(force_log, is_term, width) ==
    [force_log |-> force_log, is_term |-> is_term, width |-> width]
Terms == {Term(FALSE, TRUE, 20), Term(TRUE, TRUE, 20),
          Term(FALSE, FALSE, 20), Term(FALSE, TRUE, 19)}

InitLog ==
    /\ NoCache
    /\ NoBuild
    /\ fmtlibs = FmtIdle
    /\ command = CommandIdle
    /\ pipe = PipeIdle
    /\ NoMore
    /\ \E term \in Terms :
        reporter = [stacks |-> <<>>,
                    guards |-> [t \in Threads |-> <<>>],
                    unwinding |-> [t \in Threads |-> FALSE],
                    log_mode |-> unsupported(term),
                    drawn |-> <<>>,
                    term |-> term]

log_begin == \E t \in LogThreads : request_span(t)
log_end == \E t \in LogThreads : ScopeExit(t)
log_message ==
    \E t \in LogThreads, message \in LogMessages : report_message(t, message)

NextLog ==
    \/ log_begin
    \/ log_end
    \/ log_message
    \/ report_update

SpecLog == InitLog /\ [][NextLog]_vars

\* the terminal settings of the claim: force-log set, or standard error not
\* a terminal, or a width below 20
LogModeAsStated ==
    reporter.term.force_log \/ ~reporter.term.is_term
        \/ reporter.term.width < 20

\* C31: in log mode a span-begin event and a message event each write
\* exactly one line to standard error, and a span-end event and a refresh
\* event write nothing, after every sequence of events.
C31_LogLines ==
    [][LogModeAsStated =>
        /\ log_begin => Len(reporter'.drawn) = 1
        /\ log_message => Len(reporter'.drawn) = 1
        /\ log_end => reporter'.drawn = <<>>
        /\ report_update => reporter'.drawn = <<>>]_vars

\* in log mode, after a begin and a line of a subprocess, a span was ended
\* and nothing was written for it
C31_Witness ==
    /\ LogModeAsStated
    /\ reporter.term.is_term /\ ~reporter.term.force_log
    /\ reporter.drawn = <<>>
    /\ \E i \in 1..Len(reporter.stacks) :
        \E k \in 1..Len(reporter.stacks[i].stack) :
            reporter.stacks[i].stack[k].message = "\n"
    /\ \E t \in LogThreads :
        Len(reporter.guards[t]) = 1 /\ find(reporter.stacks, t) # 0

\* a line of a subprocess was written as one line, without its line feed
C31_WitnessLine ==
    /\ LogModeAsStated
    /\ reporter.drawn = <<"  out">>

(***************************************************************************)
(* SpecLocks: the StatusReporter with its two locks.  Worker threads call  *)
(* report_start (request_span), report_end (the guard is dropped),         *)
(* report_message and request_trace (Error::new); the refresh thread calls *)
(* report(Event::Update).  Every call is a sequence of steps: a lock is    *)
(* taken, the work under it is done and the lock released, and every line  *)
(* of a render is written to standard error by a step of its own.          *)
(* In this specification reporter holds: stacks; log_mode; mutex and       *)
(* stderr, the thread that holds the stack mutex and the standard-error    *)
(* lock ("" for none); th, for every thread its position pc, the event it  *)
(* reports, the lines it has still to write and the number of guards it    *)
(* keeps; writer, the thread whose render has written a part of its lines; *)
(* interleaved, whether a write ever fell between the writes of another    *)
(* render.                                                                 *)
(***************************************************************************)
Workers == {"main", "vst3"}
UPDATE_THREAD == "update"
LockThreads == Workers \cup {UPDATE_THREAD}

ThreadIdle == [pc |-> "idle", ev |-> EvUpdate, lines |-> <<>>, depth |-> 0]

\* thread t goes to pc
At(t, pc) == [reporter EXCEPT !.th[t].pc = pc]

LocksFrame ==
    UNCHANGED <<cache_vars, build_vars, fmtlibs, command, pipe, more_vars>>

\* report_span! on a worker: StatusReporter::request_span is called
call_report_start ==
    /\ \E t \in Workers, span \in Spans :
        /\ reporter.th[t].pc = "idle"
        /\ reporter.th[t].depth < MaxDepth
        /\ reporter' = [reporter EXCEPT !.th[t].pc = "start_wait",
                                        !.th[t].ev = EvBegin(span)]
    /\ LocksFrame

\* a guard is dropped: StatusReporter::report_end is called
call_report_end ==
    /\ \E t \in Workers :
        /\ reporter.th[t].pc = "idle"
        /\ reporter.th[t].depth > 0
        /\ reporter' = [reporter EXCEPT !.th[t].pc = "end_wait",
                                        !.th[t].ev = EvEnd,
                                        !.th[t].depth = @ - 1]
    /\ LocksFrame

\* report_message! on a worker
call_report_message ==
    /\ \E t \in Workers, message \in Messages :
        /\ reporter.th[t].pc = "idle"
        /\ reporter' = [reporter EXCEPT !.th[t].pc = "message_wait",
                                        !.th[t].ev = EvMessage(message)]
    /\ LocksFrame

\* Error::new on a worker: StatusReporter::request_trace is called
call_request_trace ==
    /\ \E t \in Workers :
        /\ reporter.th[t].pc = "idle"
        /\ reporter' = At(t, "trace_wait")
    /\ LocksFrame

\* the refresh thread wakes up and calls report(Event::Update)
update_thread_wakes ==
    /\ reporter.th[UPDATE_THREAD].pc = "idle"
    /\ reporter' = [reporter EXCEPT !.th[UPDATE_THREAD].pc = "stderr_wait",
                                    !.th[UPDATE_THREAD].ev = EvUpdate]
    /\ LocksFrame

\* where a thread waits for the stack mutex, and where it is once it has it
StacksWaits ==
    [start_wait |-> "start_locked", end_wait |-> "end_locked",
     message_wait |-> "message_locked", trace_wait |-> "trace_locked",
     bar_wait |-> "bar_locked"]

\* self.stacks.lock() returns on thread t
stacks_lock ==
    /\ \E t \in LockThreads :
        /\ reporter.th[t].pc \in DOMAIN StacksWaits
        /\ reporter.mutex = ""
        /\ reporter' = [reporter EXCEPT
                !.mutex = t, !.th[t].pc = StacksWaits[reporter.th[t].pc]]
    /\ LocksFrame

\* report_start lines 71-77: push, drop(stacks), the guard is kept
locked_report_start ==
    /\ \E t \in Workers :
        /\ reporter.th[t].pc = "start_locked"
        /\ reporter' = [reporter EXCEPT
                !.stacks = report_start(@, t, reporter.th[t].ev.text),
                !.mutex = "",
                !.th[t].depth = @ + 1,
                !.th[t].pc = "stderr_wait"]
    /\ LocksFrame

\* report_end lines 82-95: pop, and return false without a report when the
\* thread has no stack
locked_report_end ==
    /\ \E t \in Workers :
        /\ reporter.th[t].pc = "end_locked"
        /\ reporter' = [reporter EXCEPT
                !.stacks = report_end(@, t),
                !.mutex = "",
                !.th[t].pc = IF find(reporter.stacks, t) = 0 THEN "idle"
                             ELSE "stderr_wait"]
    /\ LocksFrame

\* a report_message that keeps the stack mutex while it reports
locked_report_message_Keep ==
    /\ \E t \in Workers :
        /\ reporter.th[t].pc = "message_locked"
        /\ reporter' = [reporter EXCEPT
                !.stacks = set_message(@, t, reporter.th[t].ev.text),
                !.th[t].pc = "stderr_wait"]
    /\ LocksFrame
\* report_message lines 54-61: the guard is a temporary of the statement
locked_report_message ==
    /\ \E t \in Workers :
        /\ reporter.th[t].pc = "message_locked"
        /\ reporter' = [reporter EXCEPT
                !.stacks = set_message(@, t, reporter.th[t].ev.text),
                !.mutex = "",
                !.th[t].pc = "stderr_wait"]
    /\ LocksFrame

\* request_trace lines 104-109: the callback of Error::new copies the spans
locked_request_trace ==
    /\ \E t \in Workers :
        /\ reporter.th[t].pc = "trace_locked"
        /\ reporter' = [reporter EXCEPT !.mutex = "", !.th[t].pc = "idle"]
    /\ LocksFrame

\* a draw_string that does not wait for the lock of standard error
draw_string_lock_NoWait ==
    /\ \E t \in LockThreads :
        /\ reporter.th[t].pc = "stderr_wait"
        /\ reporter' = [reporter EXCEPT !.stderr = t,
                                        !.th[t].pc = "drawing"]
    /\ LocksFrame
\* draw_string line 29: std::io::stderr().lock() returns on thread t
draw_string_lock ==
    /\ \E t \in LockThreads :
        /\ reporter.th[t].pc = "stderr_wait"
        /\ reporter.stderr = ""
        /\ reporter' = [reporter EXCEPT !.stderr = t,
                                        !.th[t].pc = "drawing"]
    /\ LocksFrame

\* draw_string lines 32-45: in log mode the lines of the event, otherwise
\* generate_status_bar is called
draw_string_mode ==
    /\ \E t \in LockThreads :
        /\ reporter.th[t].pc = "drawing"
        /\ reporter' =
            IF reporter.log_mode
            THEN [reporter EXCEPT
                    !.th[t].lines = report(TRUE, reporter.stacks,
                                           reporter.th[t].ev),
                    !.th[t].pc = "writing"]
            ELSE At(t, "bar_wait")
    /\ LocksFrame

\* generate_status_bar lines 76-81 and draw_string lines 46-48: the lines
\* of all stacks, written after the lines of the last render are cleared
locked_request_trace_all ==
    /\ \E t \in LockThreads :
        /\ reporter.th[t].pc = "bar_locked"
        /\ reporter' = [reporter EXCEPT
                !.mutex = "",
                !.th[t].lines = <<"clear_last_lines">>
                    \o report(FALSE, reporter.stacks, reporter.th[t].ev),
                !.th[t].pc = "writing"]
    /\ LocksFrame

\* draw_string lines 39-41 and 48-52: one write to standard error
write_line ==
    /\ \E t \in LockThreads :
        /\ reporter.th[t].pc = "writing"
        /\ reporter.th[t].lines # <<>>
        /\ reporter' = [reporter EXCEPT
                !.th[t].lines = Tail(@),
                !.writer = t,
                !.interleaved = @ \/ reporter.writer \notin {"", t}]
    /\ LocksFrame

\* draw_string returns: _lock is dropped
draw_string_return ==
    /\ \E t \in LockThreads :
        /\ reporter.th[t].pc = "writing"
        /\ reporter.th[t].lines = <<>>
        /\ reporter' = [reporter EXCEPT
                !.th[t].pc = "idle",
                !.writer = IF @ = t THEN "" ELSE @,
                !.stderr = IF @ = t THEN "" ELSE @]
    /\ LocksFrame

InitLocks ==
    /\ NoCache
    /\ NoBuild
    /\ fmtlibs = FmtIdle
    /\ command = CommandIdle
    /\ pipe = PipeIdle
    /\ NoMore
    /\ \E log_mode \in BOOLEAN :
        reporter = [stacks |-> <<>>, log_mode |-> log_mode,
                    mutex |-> "", stderr |-> "",
                    th |-> [t \in LockThreads |-> ThreadIdle],
                    writer |-> "", interleaved |-> FALSE]

NextLocks ==
    \/ call_report_start
    \/ call_report_end
    \/ call_report_message
    \/ call_request_trace
    \/ update_thread_wakes
    \/ stacks_lock
    \/ locked_report_start
    \/ locked_report_end
    \/ locked_report_message
    \/ locked_request_trace
    \/ draw_string_lock
    \/ draw_string_mode
    \/ locked_request_trace_all
    \/ write_line
    \/ draw_string_return

SpecLocks == InitLocks /\ [][NextLocks]_vars

\* the threads that are inside draw_string, past its lock
Rendering ==
    {t \in LockThreads :
        reporter.th[t].pc \in {"drawing", "bar_wait", "bar_locked", "writing"}}

\* C32: at most one thread at a time writes to standard error through the
\* status reporter: a thread that renders holds the lock of standard error,
\* no two threads render at once, and no write of the refresh thread or of
\* a thread that begins or releases a span or reports a message ever falls
\* between the writes of another render.
C32_OneWriter ==
    /\ ~reporter.interleaved
    /\ \A t \in Rendering : reporter.stderr = t
    /\ \A t, u \in Rendering : t = u
    /\ reporter.writer # "" => reporter.writer \in Rendering

\* the refresh thread has written a part of the status bar while one worker
\* waits to render the begin of a span and the other a message
C32_Witness ==
    /\ reporter.writer = UPDATE_THREAD
    /\ reporter.th[UPDATE_THREAD].lines # <<>>
    /\ reporter.th["main"].pc = "stderr_wait"
    /\ reporter.th["main"].ev.kind = "Begin"
    /\ reporter.th["vst3"].pc = "stderr_wait"
    /\ reporter.th["vst3"].ev.kind = "Message"

\* thread t waits for a lock that another thread, or t itself, holds
Blocked(t) ==
    \/ reporter.th[t].pc \in DOMAIN StacksWaits /\ reporter.mutex # ""
    \/ reporter.th[t].pc = "stderr_wait" /\ reporter.stderr # ""

\* the thread that holds the lock a blocked thread waits for
WaitsFor(t) ==
    IF reporter.th[t].pc = "stderr_wait" THEN reporter.stderr
    ELSE reporter.mutex

\* C35: no thread waits for the lock of standard error while it holds the
\* stack mutex; the mutex is held alone or inside the lock of standard
\* error; and the threads never wait for one another in a cycle, so the
\* refresh thread and the workers cannot deadlock on the two locks.
C35_LockOrder ==
    /\ \A t \in LockThreads :
        /\ reporter.th[t].pc = "stderr_wait" => reporter.mutex # t
        /\ reporter.mutex = t =>
            /\ reporter.th[t].pc \in
                {"start_locked", "end_locked", "message_locked",
                 "trace_locked", "bar_locked"}
            /\ reporter.th[t].pc = "bar_locked" <=> reporter.stderr = t
        /\ Blocked(t) =>
            /\ WaitsFor(t) # t
            /\ Blocked(WaitsFor(t)) =>
                /\ WaitsFor(WaitsFor(t)) \notin {t, WaitsFor(t)}
                /\ ~Blocked(WaitsFor(WaitsFor(t)))

\* a worker waits for standard error, which the refresh thread holds while
\* it waits for the stack mutex, which the other worker holds in Error::new
C35_Witness ==
    /\ reporter.th["main"].pc = "stderr_wait"
    /\ reporter.stderr = UPDATE_THREAD
    /\ reporter.th[UPDATE_THREAD].pc = "bar_wait"
    /\ reporter.mutex = "vst3"
    /\ reporter.th["vst3"].pc = "trace_locked"

(***************************************************************************)
(* Streamed-both mode: the return of the call                              *)
(***************************************************************************)
\* the scheduler runs a thread that can take a step
SpecStreamFair == SpecStream /\ WF_vars(NextStream)

\* both reader threads have read their pipe to its end and were joined
ReadersAtEnd ==
    /\ pipe.pc = "joined"
    /\ \A side \in {"left", "right"} :
        /\ pipe[side].pc = "finished"
        /\ pipe[side].rest = <<>>

\* C33: run_stdout_stderr returns only after both reader threads have
\* reached the end of their stream and were joined and every queued line
\* was given to its callback; no callback runs after the return, and the
\* exit status is examined only after all lines were delivered.
C33_ReturnsAfterDrain ==
    /\ Streaming /\ command.pc = "returned" =>
        /\ ReadersAtEnd
        /\ pipe.channel = <<>>
        /\ Len(pipe.output) =
            Len(command.child.stdout) + Len(command.child.stderr)
    /\ Streaming /\ command.pc # "returned" => pipe.pc = "recv"

\* the same for the subprocesses that write valid UTF-8 only
C33_ReturnsAfterDrainUtf8 ==
    (/\ Streaming
     /\ \A i \in 1..Len(command.child.stdout) :
            IsUtf8(command.child.stdout[i])
     /\ \A j \in 1..Len(command.child.stderr) :
            IsUtf8(command.child.stderr[j]))
    => C33_ReturnsAfterDrain

\* for every subprocess the call returns
C33_EventuallyReturns == <>(command.pc = "returned")

\* no callback runs after the return: nothing changes once the call has
\* returned
C33_NoCallbackAfterReturn ==
    [][command.pc = "returned" => pipe' = pipe]_vars

(***************************************************************************)
(* SpecDrain: Command::run_stdout with the two pipes of the subprocess.    *)
(* The subprocess writes valid lines to standard output and standard       *)
(* error in the order of its program and then exits, which closes both     *)
(* pipes; a write blocks while the pipe is full.  The caller reads         *)
(* standard output to its end with read_to_end and only then calls         *)
(* wait_with_output, which reads standard error to its end and waits.      *)
(* In this specification pipe holds: pc, the position of the caller;       *)
(* program, what the subprocess writes; next, the write it is at; exited;  *)
(* stdout and stderr, the lines in the two pipes; streamed, the lines      *)
(* given to the callback; collected, the lines wait_with_output has read.  *)
(***************************************************************************)
Programs == SeqsUpTo({"stdout", "stderr"}, MaxWrites) \cup {<<>>}

DrainFrame ==
    UNCHANGED <<cache_vars, build_vars, fmtlibs, command, reporter, more_vars>>

\* the subprocess writes its next line, when the pipe has room for it
child_write ==
    /\ ~pipe.exited
    /\ pipe.next <= Len(pipe.program)
    /\ LET to == pipe.program[pipe.next] IN
        /\ pipe[to] < PipeCapacity
        /\ pipe' = [pipe EXCEPT ![to] = @ + 1, !.next = @ + 1]
    /\ DrainFrame

\* the subprocess has written everything and exits
child_exit ==
    /\ ~pipe.exited
    /\ pipe.next > Len(pipe.program)
    /\ pipe' = [pipe EXCEPT !.exited = TRUE]
    /\ DrainFrame

\* read_to_end line 228-231: read_line returns a line of standard output
run_stdout_read_line ==
    /\ pipe.pc = "read_to_end"
    /\ pipe.stdout > 0
    /\ pipe' = [pipe EXCEPT !.stdout = @ - 1, !.streamed = @ + 1]
    /\ DrainFrame

\* read_to_end line 229: read_line returns 0, the pipe is empty and closed
run_stdout_end_of_stream ==
    /\ pipe.pc = "read_to_end"
    /\ pipe.stdout = 0
    /\ pipe.exited
    /\ pipe' = [pipe EXCEPT !.pc = "wait_with_output"]
    /\ DrainFrame

\* run_stdout line 120: wait_with_output reads a line of standard error
wait_with_output_read ==
    /\ pipe.pc = "wait_with_output"
    /\ pipe.stderr > 0
    /\ pipe' = [pipe EXCEPT !.stderr = @ - 1, !.collected = @ + 1]
    /\ DrainFrame

\* run_stdout lines 120-128: standard error is at its end, the subprocess
\* has exited, and run_stdout returns
wait_with_output_return ==
    /\ pipe.pc = "wait_with_output"
    /\ pipe.stderr = 0
    /\ pipe.exited
    /\ pipe' = [pipe EXCEPT !.pc = "returned"]
    /\ DrainFrame

InitDrain ==
    /\ NoCache
    /\ NoBuild
    /\ fmtlibs = FmtIdle
    /\ command = CommandIdle
    /\ reporter = ReporterIdle
    /\ NoMore
    /\ \E program \in Programs :
        pipe = [pc |-> "read_to_end", program |-> program, next |-> 1,
                exited |-> FALSE, stdout |-> 0, stderr |-> 0,
                streamed |-> 0, collected |-> 0]

NextDrain ==
    \/ child_write
    \/ child_exit
    \/ run_stdout_read_line
    \/ run_stdout_end_of_stream
    \/ wait_with_output_read
    \/ wait_with_output_return

SpecDrain == InitDrain /\ [][NextDrain]_vars

\* the subprocess and the caller run whenever they can take a step
SpecDrainFair == SpecDrain /\ WF_vars(NextDrain)

\* the lines the subprocess writes to standard error
StderrLines ==
    {k \in 1..Len(pipe.program) : pipe.program[k] = "stderr"}

\* C34: in streamed-stdout mode, for every subprocess that writes finitely
\* many lines to standard output and standard error and then exits, the
\* call returns, also when the subprocess writes more to standard error
\* than the pipe holds before it closes standard output.
C34_EventuallyReturns == <>(pipe.pc = "returned")

\* the same for the subprocesses whose standard error fits into the pipe
C34_ReturnsWhenStderrFits ==
    Cardinality(StderrLines) <= PipeCapacity => <>(pipe.pc = "returned")

\* the caller waits for the end of standard output while the subprocess
\* waits for room in the pipe of standard error
C34_Stuck ==
    /\ pipe.pc = "read_to_end"
    /\ pipe.stdout = 0
    /\ ~pipe.exited
    /\ pipe.next <= Len(pipe.program)
    /\ pipe.program[pipe.next] = "stderr"
    /\ pipe.stderr = PipeCapacity

\* nothing is read from standard error before standard output is at its end
C34_StdoutFirst ==
    pipe.pc = "read_to_end" => pipe.collected = 0

(***************************************************************************)
(* The status map                                                          *)
(***************************************************************************)
\* StatusReporter::request_trace_all: the threads the callback is called
\* for, in the order of the entries
request_trace_all(stacks) == [i \in 1..Len(stacks) |-> stacks[i].thread]

\* C36: in every reachable state the status map holds at most one entry
\* per thread and no entry with an empty stack, and a snapshot of all
\* stacks lists exactly the threads that hold an open span: the entry of a
\* thread is made by its first begin_span and removed when its last open
\* span is released.
C36_OneEntryPerOpenThread ==
    LET snapshot == request_trace_all(reporter.stacks) IN
    /\ \A i, j \in 1..Len(snapshot) : snapshot[i] = snapshot[j] => i = j
    /\ \A i \in 1..Len(reporter.stacks) : reporter.stacks[i].stack # <<>>
    /\ {snapshot[i] : i \in 1..Len(snapshot)}
        = {t \in Threads : reporter.guards[t] # <<>>}

\* a thread has released its last open span, by error propagation, and is
\* no longer in the map, which lists the two threads that hold spans
C36_Witness ==
    /\ reporter.unwinding["pico"]
    /\ reporter.guards["pico"] = <<>>
    /\ request_trace_all(reporter.stacks) = <<"vst3", "main">>
    /\ Len(reporter.guards["main"]) = 2

(***************************************************************************)
(* Bundle paths of a wrapper-mediated build                                *)
(***************************************************************************)
\* build has returned the artifacts of the wrapper
WrapperReturnedArtifacts ==
    /\ b.use_cmake
    /\ b.result.returned
    /\ b.result.ok

\* two artifacts are of different (target, package, format)
Different(x, y) ==
    x.target # y.target \/ x.package # y.package \/ x.format # y.format

\* C37: in a wrapper-mediated build, artifacts of distinct (target,
\* package, format) have distinct bundle paths, and the wrapper builds of
\* two different targets never use the same build subdirectory, also when
\* more than one target has no shim triple.
C37_DistinctBundlePaths ==
    /\ WrapperReturnedArtifacts =>
        \A i, j \in 1..Len(b.result.val) :
            Different(b.result.val[i], b.result.val[j]) =>
                b.result.val[i].path # b.result.val[j].path
    /\ b.pc \in {"wrapper", "cmake_build"} =>
        \A i, j \in 1..Len(b.artifacts) :
            b.artifacts[i].target # b.artifacts[j].target =>
                wrapper_build_dir(b.artifacts[i])
                    # wrapper_build_dir(b.artifacts[j])

\* the same for the requests in which at most one target has no shim triple
\* and no two targets have the same shim triple
C37_DistinctWhenDirsDiffer ==
    (\A i, j \in 1..Len(b.artifacts) :
        b.artifacts[i].target # b.artifacts[j].target =>
            b.artifacts[i].zig_triple # b.artifacts[j].zig_triple)
    => C37_DistinctBundlePaths

(***************************************************************************)
(* Post-build stage: the paths the tasks of main remove and write          *)
(***************************************************************************)
\* PluginFormat::extension
extension(format) ==
    CASE format = "Clap" -> "clap"
      [] format = "Vst3" -> "vst3"
      [] format = "Auv2" -> "component"

\* util.rs: plugin_system_folder, with HOME = "~"
plugin_system_folder(plugin, os) ==
    CASE plugin = "Clap" /\ os = "linux" -> Ok("~/.clap/")
      [] plugin = "Clap" /\ IsDarwinOrMacOSX(os) ->
            Ok("~/Library/Audio/Plug-Ins/CLAP/")
      [] plugin = "Vst3" /\ os = "linux" -> Ok("~/.vst3/")
      [] plugin = "Vst3" /\ IsDarwinOrMacOSX(os) ->
            Ok("~/Library/Audio/Plug-Ins/VST3/")
      [] plugin = "Auv2" /\ IsDarwinOrMacOSX(os) ->
            Ok("~/Library/Audio/Plug-Ins/Components/")
      [] OTHER -> Err("could not determine the system folder")

\* main.rs lines 77-80
output_path(artifact) ==
    with_extension("target/bundled/" \o TargetToString(artifact.target)
                        \o "/" \o artifact.package,
                   extension(artifact.format))

\* main.rs lines 106-110, for a host whose system folder is known
install_path(artifact, os) ==
    with_extension(plugin_system_folder(artifact.format, os).val \o "dev/"
                        \o artifact.package,
                   extension(artifact.format))

\* the bundles build returns: a CLAP plugin for Linux is one file, every
\* other bundle is a directory
IsFile(artifact) ==
    /\ artifact.format = "Clap"
    /\ ~IsDarwinOrMacOSX(artifact.target.triple.operating_system)

InstallTargets ==
    {Triple(X86_64_LINUX_GNU), Triple(X86_64_LINUX_MUSL),
     Triple(AARCH64_APPLE_DARWIN), AppleUniversal}

\* the artifacts of one package, as build returns them
InstallArtifacts ==
    {BuildArtifact("demo", t, f, "target/build/" \o TargetToString(t)
                                    \o "/demo." \o extension(f)) :
        t \in InstallTargets, f \in {"Clap", "Vst3"}}

\* what is at `path`, if anything
FileAt(path) == {e \in post.files : e.path = path}

\* the path the step at `pc` of the task for `artifact` works on
TaskPath(artifact, pc) ==
    IF pc \in {"create_output", "unlink_output", "reflink_output", "codesign"}
    THEN output_path(artifact)
    ELSE IF pc \in {"create_install", "unlink_install", "reflink_install"}
    THEN install_path(artifact, post.host.operating_system)
    ELSE ""

\* lines 98 and 106-107: is the artifact installed, and where to go if the
\* system folder is unknown
AfterOutput(artifact) ==
    IF post.install /\ is_supported(artifact.target, post.host)
    THEN IF plugin_system_folder(artifact.format,
                                 post.host.operating_system).ok
         THEN [pc |-> "create_install", result |-> Ok("")]
         ELSE [pc |-> "done",
               result |-> plugin_system_folder(artifact.format,
                                post.host.operating_system)]
    ELSE [pc |-> "done", result |-> Ok("")]

InstallFrame ==
    UNCHANGED <<cache_vars, build_vars, fmtlibs, command, pipe, reporter,
                error, cargo, fncall>>

\* task i is at one of the steps `pcs`
TaskAt(i, pcs) ==
    /\ post.pc \in {"spawn", "join"}
    /\ i \in 1..Len(post.tasks)
    /\ post.tasks[i].pc \in pcs

\* run_parallel: spawn one scoped thread per artifact
run_parallel_spawn ==
    /\ post.pc = "spawn"
    /\ post' = [post EXCEPT
            !.tasks = Append(@, [pc |-> "create_output", result |-> Ok("")]),
            !.pc = IF Len(post.tasks) + 1 = Len(post.artifacts)
                   THEN "join" ELSE "spawn"]
    /\ InstallFrame

\* let _ = std::fs::create_dir_all(path): the result is ignored
task_create_dir_all ==
    \E i \in 1..MaxArtifacts :
        /\ TaskAt(i, {"create_output", "create_install"})
        /\ LET path == TaskPath(post.artifacts[i], post.tasks[i].pc) IN
            post' = [post EXCEPT
                !.files = IF FileAt(path) = {}
                          THEN @ \cup {[path |-> path, kind |-> "dir", from |-> 0]}
                          ELSE @,
                !.tasks[i].pc = IF post.tasks[i].pc = "create_output"
                                THEN "unlink_output" ELSE "unlink_install"]
        /\ InstallFrame

\* wait_unlink(path): remove the file or directory; NotFound is no error
task_wait_unlink ==
    \E i \in 1..MaxArtifacts :
        /\ TaskAt(i, {"unlink_output", "unlink_install"})
        /\ LET path == TaskPath(post.artifacts[i], post.tasks[i].pc) IN
            post' = [post EXCEPT
                !.files = @ \ FileAt(path),
                !.tasks[i].pc = IF post.tasks[i].pc = "unlink_output"
                                THEN "reflink_output" ELSE "reflink_install"]
        /\ InstallFrame

\* reflink(artifact.path, path): a file is copied over a file, and fails on
\* a directory; for a directory fs::create_dir fails when the path exists
task_reflink ==
    \E i \in 1..MaxArtifacts :
        /\ TaskAt(i, {"reflink_output", "reflink_install"})
        /\ LET artifact == post.artifacts[i]
               path == TaskPath(artifact, post.tasks[i].pc)
               ok == IF IsFile(artifact)
                     THEN \A e \in FileAt(path) : e.kind = "file"
                     ELSE FileAt(path) = {}
               after == IF post.tasks[i].pc = "reflink_install"
                        THEN [pc |-> "done", result |-> Ok("")]
                        ELSE IF post.codesign \/ post.macos
                        THEN [pc |-> "codesign", result |-> Ok("")]
                        ELSE AfterOutput(artifact)
           IN
            post' = [post EXCEPT
                !.files =
                    IF ok
                    THEN (@ \ FileAt(path)) \cup
                            {[path |-> path,
                              kind |-> IF IsFile(artifact) THEN "file" ELSE "dir",
                              from |-> i]}
                    ELSE @,
                !.tasks[i] =
                    IF ok THEN after
                    ELSE [pc |-> "done", result |-> Err("io: " \o path)]]
        /\ InstallFrame

\* codesign_bundle and, with a codesign identity, notarize_bundle on the
\* output path: they fail when the bundle is not there
task_codesign ==
    \E i \in 1..MaxArtifacts :
        /\ TaskAt(i, {"codesign"})
        /\ LET artifact == post.artifacts[i]
               ok == \E e \in FileAt(output_path(artifact)) : e.from # 0
           IN
            post' = [post EXCEPT
                !.tasks[i] =
                    IF ok THEN AfterOutput(artifact)
                    ELSE [pc |-> "done",
                          result |-> Err("codesign: " \o output_path(artifact))]]
        /\ InstallFrame

\* run_parallel: every handle is joined and the first error is returned
run_parallel_return ==
    /\ post.pc = "join"
    /\ \A i \in 1..Len(post.tasks) : post.tasks[i].pc = "done"
    /\ post' = [post EXCEPT
            !.pc = "returned",
            !.result =
                IF \A i \in 1..Len(post.tasks) : post.tasks[i].result.ok
                THEN Ok("")
                ELSE post.tasks[CHOOSE i \in 1..Len(post.tasks) :
                        /\ ~post.tasks[i].result.ok
                        /\ \A j \in 1..(i - 1) : post.tasks[j].result.ok].result]
    /\ InstallFrame

\* the artifacts of one build are of distinct (target, package, format)
InitInstall ==
    /\ NoCache /\ NoBuild
    /\ fmtlibs = FmtIdle /\ command = CommandIdle
    /\ pipe = PipeIdle /\ reporter = ReporterIdle
    /\ error = ErrorIdle /\ cargo = CargoIdle /\ fncall = FnIdle
    /\ \E arts \in SeqsUpTo(InstallArtifacts, MaxArtifacts),
          h \in Hosts, cs \in BOOLEAN, ins \in BOOLEAN :
        /\ \A i, j \in 1..Len(arts) : i # j => arts[i] # arts[j]
        /\ post = [pc |-> "spawn", host |-> h, artifacts |-> arts,
                   codesign |-> cs, macos |-> IsDarwinOrMacOSX(h.operating_system),
                   install |-> ins, tasks |-> <<>>, files |-> {},
                   result |-> Ok("")]

NextInstall ==
    \/ run_parallel_spawn
    \/ task_create_dir_all
    \/ task_wait_unlink
    \/ task_reflink
    \/ task_codesign
    \/ run_parallel_return

SpecInstall == InitInstall /\ [][NextInstall]_vars

(***************************************************************************)
(* Paths of the post-build stage                                           *)
(***************************************************************************)
\* the paths task i still removes or writes, from the step it is at
Pending(i) ==
    LET artifact == post.artifacts[i]
        pc == post.tasks[i].pc
        installs == /\ post.install
                    /\ is_supported(artifact.target, post.host)
                    /\ plugin_system_folder(artifact.format,
                            post.host.operating_system).ok
        ins == IF installs
               THEN {install_path(artifact, post.host.operating_system)}
               ELSE {}
    IN  CASE pc \in {"create_output", "unlink_output", "reflink_output"} ->
                {output_path(artifact)} \cup ins
          [] pc = "codesign" -> {output_path(artifact)} \cup ins
          [] pc \in {"create_install", "unlink_install", "reflink_install"} ->
                {install_path(artifact, post.host.operating_system)}
          [] OTHER -> {}

\* C38: in the post-build stage no two concurrently running tasks remove or
\* write the same filesystem path: the output paths are distinct for
\* distinct (target, package, format) and the install paths are distinct for
\* all artifacts installed in the same run, also for two host-supported
\* targets with the same package and format.
C38_NoSharedPath ==
    post.pc \in {"spawn", "join"} =>
        \A i, j \in 1..Len(post.tasks) :
            i # j => Pending(i) \cap Pending(j) = {}

\* the part of it about the output paths under target/bundled
C38_OutputPathsDistinct ==
    post.pc \in {"spawn", "join"} =>
        \A i, j \in 1..Len(post.artifacts) :
            i # j => output_path(post.artifacts[i])
                        # output_path(post.artifacts[j])

\* no two running tasks share a path when nothing is installed
C38_NoSharedPathWithoutInstall ==
    ~post.install => C38_NoSharedPath

\* what sharing the install path leads to: a task fails in reflink on the
\* directory the other task has just created
C38_InstallFailed ==
    /\ post.pc = "returned"
    /\ ~post.result.ok
    /\ \A i \in 1..Len(post.artifacts) :
        plugin_system_folder(post.artifacts[i].format,
                             post.host.operating_system).ok

(***************************************************************************)
(* AUv2 and the operating system of the target                             *)
(***************************************************************************)
\* the operating system of the target is Apple's
IsApple(target) ==
    \/ target.kind = "AppleUniversal"
    \/ IsDarwinOrMacOSX(target.triple.operating_system)

\* the wrapper build at hand is asked for AUv2 (PICO_PLUGIN_WANT_AUV2)
WantsAuv2 ==
    /\ b.pc \in {"wrapper", "cmake_build"}
    /\ b.ai <= Len(b.artifacts)
    /\ req.auv2
    /\ b.artifacts[b.ai].osx_arch.some

\* the AUv2 artifacts build has returned
ReturnedAuv2 ==
    IF WrapperReturnedArtifacts
    THEN {b.result.val[i] : i \in {k \in 1..Len(b.result.val) :
                                    b.result.val[k].format = "Auv2"}}
    ELSE {}

\* C39: the artifact list returned by build never contains an AUv2 artifact,
\* and the wrapper is never asked to produce AUv2, for a target whose
\* operating system is not Apple, whatever the request flags.
C39_Auv2OnlyForApple ==
    /\ \A a \in ReturnedAuv2 : IsApple(a.target)
    /\ WantsAuv2 => IsApple(b.artifacts[b.ai].target)

\* the same for the libc-versioned triples, and AUv2 only when requested
C39_Auv2NeverForGlibc ==
    /\ \A a \in ReturnedAuv2 : a.target.kind # "TripleGlibc" /\ req.auv2
    /\ WantsAuv2 => b.artifacts[b.ai].target.kind # "TripleGlibc"

====
